---- MODULE Spec2Model ----
(***************************************************************************)
(* Vector Pen (xcx-vpen): the per-target path engine of                     *)
(* src/src/vm/extensions/block/index.js (class VPenBlocks).                 *)
(*                                                                         *)
(* Numbers.  Coordinates are fixed-point integers: one model unit is 1/Unit *)
(* of a stage / drawing-surface unit, so that the midpoints computed by     *)
(* _addCurveToPenPath and the tolerance 0.5 of _finishPen are integers.     *)
(* Target positions are even numbers of model units (multiples of 0.5).     *)
(*                                                                         *)
(* A path command ['L', x, y] is the record [op, x, y, cx, cy]; cx, cy are  *)
(* the 4th and 5th array entries of a 'Q' command and Absent otherwise.     *)
(***************************************************************************)
EXTENDS Integers, Sequences, FiniteSets, TLC

Unit == 4

StageWidth == 480

StageHeight == 360

\* Bounds of the model: commands of an open path (Spec), commands of an open
\* path when the target stays near its first position (SpecLong), children of
\* a document, registrations of the motion listener on one target.
MaxCmds == 3

MaxLongCmds == 4

MaxKids == 1

MaxShortCmds == 2

MaxManyKids == 2

MaxListeners == 2

\* Commands of an open path in the behaviours that mix the two line shapes
MaxMixedCmds == 5

\* The original target of the sprite and a clone of it
Originals == {"s1"}

Clones == {"c1"}

AllTargets == Originals \cup Clones

\* Stage positions a target takes: (0,0), (0.5,0) and (0,10) stage units.
Positions == {<<0, 0>>, <<2, 0>>, <<0, 40>>}

\* The positions within the closing tolerance of each other.
NearPositions == {<<0, 0>>, <<2, 0>>}

Diameters == {1, 2}

TRAIL == "trail"

PLOTTER == "plotter"

PEN_TYPES == {TRAIL, PLOTTER}

STRAIGHT == "straight"

CURVE == "curve"

LINE_SHAPES == {STRAIGHT, CURVE}

Absent == -1

NoPoint == <<>>

NoDrawing == "null"

NoPath == [doc |-> NoDrawing, idx |-> 0]

NoState == [absent |-> TRUE]

NoFill == [color |-> "none", opacity |-> 0]

NoFile == [name |-> "", svg |-> <<>>]

NoResult == "none"

\* The group elements that drawing.group() makes for clones
GroupKeys == {"g1"}

\* The documents: one svg root per target, the groups, and the roots that
\* drawing.remove() detached ("scratch" when "detached" is still referenced)
DocKeys == AllTargets \cup GroupKeys \cup {"detached", "scratch"}

VARIABLES
    penStates,   \* this._penStates: target id -> pen state, or NoState
    docs,        \* the SVG containers: document key -> sequence of children
    targets,     \* the host's targets: [alive, x, y]
    listeners,   \* number of times onTargetMoved is registered on the target
    skins,       \* the renderer's SVG skin of each target's pen layer
    drawOrder,   \* the renderer's draw list of the pen layer group, back to front
    stepPerMM,   \* this.stepPerMM
    cmdLimit,    \* the bound on the commands of an open path in this behaviour
    kidLimit,    \* the bound on the children of a document in this behaviour
    saved,       \* the file last given to FileSaver.saveAs, or NoFile
    result,      \* the value the last download block returned, or NoResult
    run,         \* history: handler invocations since the open path was started
                 \*   with no other operation in between, or -1
    hist         \* history: [down, mode, ever] summary of the penDown / penUp / plot /
                 \*   stamp calls on the target

vars == <<penStates, docs, targets, listeners, skins, drawOrder, stepPerMM, cmdLimit, kidLimit,
          saved, result, run, hist>>

----------------------------------------------------------------------------
(* Path commands and the array edits of the path builder.                   *)

Cmd(op, x, y, cx, cy) == [op |-> op, x |-> x, y |-> y, cx |-> cx, cy |-> cy]

MoveTo(p) == Cmd("M", p[1], p[2], Absent, Absent)

LineTo(p) == Cmd("L", p[1], p[2], Absent, Absent)

SmoothTo(p) == Cmd("T", p[1], p[2], Absent, Absent)

QuadTo(p, c) == Cmd("Q", p[1], p[2], c[1], c[2])

ClosePath == Cmd("Z", Absent, Absent, Absent, Absent)

Pop(a) == SubSeq(a, 1, Len(a) - 1)

\* _mapToSVGViewBox: [x + stageWidth / 2, stageHeight / 2 - y]
MapToSVGViewBox(x, y) == <<x + ((StageWidth * Unit) \div 2), ((StageHeight * Unit) \div 2) - y>>

\* _addLineToPenPath, on the command array
AddLine(a, x, y) == Append(a, LineTo(MapToSVGViewBox(x, y)))

\* _addCurveToPenPath, on the command array
AddCurve(a, x, y) ==
    LET prevNode == a[Len(a)]
        a1 == IF prevNode.op = "T" THEN Pop(a) ELSE a
        prevPoint == <<prevNode.x, prevNode.y>>
        endPoint == MapToSVGViewBox(x, y)
        controlPoint == <<(prevPoint[1] + endPoint[1]) \div 2,
                          (prevPoint[2] + endPoint[2]) \div 2>>
    IN  a1 \o <<QuadTo(prevPoint, controlPoint), SmoothTo(endPoint)>>

\* _removeReferenceLine, on the command array (the reference point is set)
RemoveLine(a, lineShape) ==
    IF lineShape = CURVE
    THEN LET a1 == Pop(a)                \* remove T
             referenceCurve == a1[Len(a1)]  \* Q
         IN  Append(Pop(a1), SmoothTo(<<referenceCurve.x, referenceCurve.y>>))
    ELSE Pop(a)

Sq(n) == n * n

Tolerance == Unit \div 2

\* _finishPen lines 386-393: the point the last command is compared with
StartOfFirstDrawn(plots) == plots[2]

StartOf(plots) == IF plots[2].op = "L" THEN plots[1] ELSE plots[2]

\* _finishPen lines 390-391: the path is NOT closed when this holds
TooFar(start, lastLine) ==
    Sq(start.x - lastLine.x) + Sq(start.y - lastLine.y) > Sq(Tolerance)

\* _finishPen lines 394-402: the command array of a path found closed
ClosedPlotsNoMerge(plots) == Append(plots, ClosePath)

ClosedPlots(plots) ==
    LET firstLine == plots[2]
        lastLine == plots[Len(plots)]
    IN  IF firstLine.op = "Q" /\ lastLine.op = "T"
        THEN LET p1 == Pop(plots)                      \* remove T
                 p2 == Append(p1, p1[2])               \* copy the first Q to the end
                 p3 == [p2 EXCEPT ![1] = MoveTo(<<p2[2].cx, p2[2].cy>>)]
                 p4 == <<p3[1]>> \o SubSeq(p3, 3, Len(p3))  \* remove the first Q
             IN  Append(p4, ClosePath)
        ELSE Append(plots, ClosePath)

\* _finishPen lines 377-402, on the command array left by _removeReferenceLine:
\* the array the path keeps (a path of one command is removed instead)
FinishedPlots(plots) ==
    IF Len(plots) = 1 THEN plots
    ELSE IF Len(plots) = 2 THEN plots
    ELSE IF TooFar(StartOf(plots), plots[Len(plots)]) THEN plots
    ELSE ClosedPlots(plots)

----------------------------------------------------------------------------
(* The engine's methods.  Each takes and returns a world                     *)
(*   w = [ps |-> pen states, docs |-> documents, skins |-> renderer skins,   *)
(*        lst |-> listener counts, ord |-> draw list of the pen layer]       *)
(* so that a method that calls another is the composition of the two.       *)
(* Opacities are percentages (the code's 0.0-1.0 times 100).                *)

\* DEFAULT_PEN_STATE (a fresh object on every read of the getter)
DEFAULT_PEN_STATE ==
    [skinID |-> -1,
     drawableID |-> -1,
     penType |-> TRAIL,
     penPath |-> NoPath,
     drawing |-> NoDrawing,
     penAttributes |-> [color3b |-> "black", opacity |-> 100, diameter |-> 1,
                        lineShape |-> STRAIGHT,
                        fillColor3b |-> "black", fillOpacity |-> 0],
     referencePoint |-> NoPoint]

SkinIds == {1, 2}

NoSkin == [state |-> "unused", svg |-> <<>>]

HasState(w, t) == w.ps[t] # NoState

\* _getPenState: lazily creates the state and its drawing (_createDrawingSVG)
GetPenState(w, t) ==
    LET w1 == IF HasState(w, t) THEN w ELSE [w EXCEPT !.ps[t] = DEFAULT_PEN_STATE]
    IN  IF w1.ps[t].drawing = NoDrawing
        THEN [w1 EXCEPT !.ps[t].drawing = t, !.docs[t] = <<>>]
        ELSE w1

\* the root element of the document that holds element k
RootKey(w, k) ==
    IF \E r \in DocKeys : \E i \in 1..Len(w.docs[r]) :
           w.docs[r][i] = [kind |-> "group", key |-> k]
    THEN CHOOSE r \in DocKeys : \E i \in 1..Len(w.docs[r]) :
           w.docs[r][i] = [kind |-> "group", key |-> k]
    ELSE k

\* element.svg(): the children of element d, each group with its own children
Expand(w, d) ==
    [i \in 1..Len(w.docs[d]) |->
        IF w.docs[d][i].kind = "group"
        THEN [kind |-> "group", kids |-> w.docs[w.docs[d][i].key]]
        ELSE w.docs[d][i]]

\* penState.drawing.svg(): the document the skin is created with
DrawingSvg(w, t) == Expand(w, w.ps[t].drawing)

\* penState.drawing.root().svg(): the document pushed to the renderer
SvgOf(w, t) == Expand(w, RootKey(w, w.ps[t].drawing))

\* The documents still referenced: those in the tree of some state's drawing
LiveDocs(w) ==
    LET roots == {RootKey(w, w.ps[t].drawing) :
                     t \in {u \in AllTargets : HasState(w, u) /\ w.ps[u].drawing # NoDrawing}}
    IN  roots \cup {g \in GroupKeys : \E r \in roots : RootKey(w, g) = r /\ r # g}

\* Unreferenced documents are gone
Collect(w) ==
    [w EXCEPT !.docs = [d \in DocKeys |-> IF d \in LiveDocs(w) THEN w.docs[d] ELSE <<>>]]

\* _getSkinIDFor: creates the skin and the drawable of the pen layer on first need
GetSkinIDFor(w, t) ==
    LET w1 == GetPenState(w, t)
    IN  IF w1.ps[t].skinID < 0
        THEN LET id == CHOOSE i \in SkinIds :
                         /\ w1.skins[i].state = "unused"
                         /\ \A j \in SkinIds : w1.skins[j].state = "unused" => i <= j
             IN  [w1 EXCEPT !.ps[t].skinID = id, !.ps[t].drawableID = id,
                            !.skins[id] = [state |-> "live", svg |-> DrawingSvg(w1, t)],
                            !.ord = Append(@, id)]
        ELSE w1

\* _updatePenSkinFor that gives up, changing nothing, when the state has no skin
UpdatePenSkinForStrict(w, t) ==
    IF ~HasState(w, t) \/ w.ps[t].skinID < 0
    THEN w
    ELSE [w EXCEPT !.skins[w.ps[t].skinID].svg = SvgOf(w, t)]

\* _updatePenSkinFor: push the current document to the layer.  The throw of
\* line 346 needs skinID < 0 after _getSkinIDFor, which makes the skin
\* whenever runtime.renderer exists; the constructor reads the renderer
\* (line 209), and createSVGSkin gives a fresh id.
UpdatePenSkinFor(w, t) ==
    LET w1 == GetSkinIDFor(w, t)
    IN  [w1 EXCEPT !.skins[w1.ps[t].skinID].svg = SvgOf(w1, t)]

PathCmds(w, t) == w.docs[w.ps[t].penPath.doc][w.ps[t].penPath.idx].cmds

SetPathCmds(w, t, a) ==
    [w EXCEPT !.docs[w.ps[t].penPath.doc][w.ps[t].penPath.idx].cmds = a]

\* _removeReferenceLine
RemoveReferenceLine(w, t) ==
    IF w.ps[t].referencePoint = NoPoint
    THEN w
    ELSE LET w1 == SetPathCmds(w, t,
                       RemoveLine(PathCmds(w, t), w.ps[t].penAttributes.lineShape))
         IN  [w1 EXCEPT !.ps[t].referencePoint = NoPoint]

RemoveAt(s, i) == SubSeq(s, 1, i - 1) \o SubSeq(s, i + 1, Len(s))

\* _finishPen
FinishPenKeepSingle(w, t) ==
    IF w.ps[t].penPath = NoPath
    THEN w
    ELSE LET w1 == RemoveReferenceLine(w, t)
             plots == PathCmds(w1, t)
             w2 == SetPathCmds(w1, t, FinishedPlots(plots))
         IN  [w2 EXCEPT !.ps[t].penPath = NoPath]

FinishPenKeepsReference(w, t) ==
    IF w.ps[t].penPath = NoPath
    THEN w
    ELSE LET path == w.ps[t].penPath
             plots == PathCmds(w, t)
             w2 == IF Len(plots) = 1
                   THEN [w EXCEPT !.docs[path.doc] = RemoveAt(@, path.idx)]
                   ELSE SetPathCmds(w, t, FinishedPlots(plots))
         IN  [w2 EXCEPT !.ps[t].penPath = NoPath]

FinishPen(w, t) ==
    IF w.ps[t].penPath = NoPath
    THEN w
    ELSE LET w1 == RemoveReferenceLine(w, t)
             path == w1.ps[t].penPath
             plots == PathCmds(w1, t)
             w2 == IF Len(plots) = 1
                   THEN [w1 EXCEPT !.docs[path.doc] = RemoveAt(@, path.idx)]
                   ELSE SetPathCmds(w1, t, FinishedPlots(plots))
         IN  [w2 EXCEPT !.ps[t].penPath = NoPath]

\* the path element drawing.path(['M', ...]).fill(...).stroke(...)
NewPath(attrs, spmm, p) ==
    [kind |-> "path",
     cmds |-> <<MoveTo(p)>>,
     fill |-> IF attrs.fillOpacity > 0
              THEN [color |-> attrs.fillColor3b, opacity |-> attrs.fillOpacity]
              ELSE NoFill,
     stroke |-> [width |-> attrs.diameter * spmm, color |-> attrs.color3b,
                 opacity |-> attrs.opacity]]

\* penState.penPath = penState.drawing.path(...): the new element is the last
\* child of the drawing
AddPath(w, t, path) ==
    [w EXCEPT !.docs[w.ps[t].drawing] = Append(@, path),
              !.ps[t].penPath = [doc |-> w.ps[t].drawing,
                                 idx |-> Len(w.docs[w.ps[t].drawing]) + 1]]

\* _startPenPath; tg is the target record [alive, x, y], spmm is this.stepPerMM
StartPenPath(w, t, tg, spmm) ==
    LET w2 == FinishPen(GetPenState(w, t), t)
    IN  AddPath(w2, t, NewPath(w2.ps[t].penAttributes, spmm, MapToSVGViewBox(tg.x, tg.y)))

\* penState.drawing.remove(); penState.drawing = null.  A root element moves
\* to a detached key with its groups; a group is taken out of its parent and
\* the children after it move up.  A path that is open stays in the element.
RemoveDrawing(w, t) ==
    LET d == w.ps[t].drawing
        r == RootKey(w, d)
    IN  IF r = d
        THEN LET dk == IF w.docs["detached"] = <<>> THEN "detached" ELSE "scratch"
             IN  [w EXCEPT !.docs[dk] = w.docs[d],
                           !.docs[d] = <<>>,
                           !.ps = [u \in AllTargets |->
                                      IF ~HasState(w, u) THEN w.ps[u]
                                      ELSE IF u = t
                                      THEN [w.ps[u] EXCEPT
                                               !.drawing = NoDrawing,
                                               !.penPath = IF @ = NoPath THEN NoPath
                                                           ELSE [@ EXCEPT !.doc = dk]]
                                      ELSE w.ps[u]]]
        ELSE LET at == CHOOSE i \in 1..Len(w.docs[r]) :
                           w.docs[r][i] = [kind |-> "group", key |-> d]
             IN  [w EXCEPT !.docs[r] = RemoveAt(@, at),
                           !.ps = [u \in AllTargets |->
                                      IF ~HasState(w, u) THEN w.ps[u]
                                      ELSE IF u = t
                                      THEN [w.ps[u] EXCEPT !.drawing = NoDrawing]
                                      ELSE IF w.ps[u].penPath.doc = r /\ w.ps[u].penPath.idx > at
                                      THEN [w.ps[u] EXCEPT !.penPath.idx = @ - 1]
                                      ELSE w.ps[u]]]

\* _clearForTarget without the test of penState.penPath before _startPenPath
ClearForTargetAlwaysStarts(w, t, tg, spmm) ==
    IF ~HasState(w, t) \/ w.ps[t].drawing = NoDrawing
    THEN w
    ELSE LET w1 == RemoveDrawing(w, t)
             w2 == StartPenPath(w1, t, tg, spmm)
         IN  Collect(UpdatePenSkinFor(w2, t))

\* _clearForTarget.  A path that is open still belongs to the removed element
\* when _startPenPath finishes it.
\* _clearForTarget whose new path keeps the reference point of the old one
ClearForTargetKeepsReference(w, t, tg, spmm) ==
    IF ~HasState(w, t) \/ w.ps[t].drawing = NoDrawing
    THEN w
    ELSE LET w1 == RemoveDrawing(w, t)
             w2 == IF w1.ps[t].penPath # NoPath
                   THEN [StartPenPath(w1, t, tg, spmm) EXCEPT
                            !.ps[t].referencePoint = w.ps[t].referencePoint]
                   ELSE w1
         IN  Collect(UpdatePenSkinFor(w2, t))

ClearForTarget(w, t, tg, spmm) ==
    IF ~HasState(w, t) \/ w.ps[t].drawing = NoDrawing
    THEN w
    ELSE LET w1 == RemoveDrawing(w, t)
             w2 == IF w1.ps[t].penPath # NoPath
                   THEN StartPenPath(w1, t, tg, spmm)
                   ELSE w1
         IN  Collect(UpdatePenSkinFor(w2, t))

\* onTargetMoved: one invocation of the handler
OnTargetMovedNoRetract(w, t, tg, isForce, spmm) ==
    LET ps == w.ps[t]
    IN  IF ps.penPath = NoPath
        THEN w
        ELSE IF ps.penType = TRAIL /\ isForce
        THEN UpdatePenSkinFor(StartPenPath(w, t, tg, spmm), t)
        ELSE LET w2 == [w EXCEPT !.ps[t].referencePoint = <<tg.x, tg.y>>]
                 a == PathCmds(w2, t)
                 w3 == SetPathCmds(w2, t,
                           IF ps.penAttributes.lineShape = CURVE
                           THEN AddCurve(a, tg.x, tg.y)
                           ELSE AddLine(a, tg.x, tg.y))
             IN  UpdatePenSkinFor(w3, t)

OnTargetMoved(w, t, tg, isForce, spmm) ==
    LET ps == w.ps[t]
    IN  IF ps.penPath = NoPath
        THEN w
        ELSE IF ps.penType = TRAIL /\ isForce
        THEN UpdatePenSkinFor(StartPenPath(w, t, tg, spmm), t)
        ELSE LET w1 == IF ps.penType = PLOTTER THEN RemoveReferenceLine(w, t) ELSE w
                 w2 == [w1 EXCEPT !.ps[t].referencePoint = <<tg.x, tg.y>>]
                 a == PathCmds(w2, t)
                 w3 == SetPathCmds(w2, t,
                           IF ps.penAttributes.lineShape = CURVE
                           THEN AddCurve(a, tg.x, tg.y)
                           ELSE AddLine(a, tg.x, tg.y))
             IN  UpdatePenSkinFor(w3, t)

\* target.addListener / target.removeListener (an event emitter: a listener
\* added twice is called twice, removeListener removes one registration)
AddListener(w, t) == [w EXCEPT !.lst[t] = @ + 1]

RemoveListener(w, t) == [w EXCEPT !.lst[t] = IF @ > 0 THEN @ - 1 ELSE 0]

\* plot
PlotKeepsReference(w, t, tg, spmm) ==
    LET w1 == GetPenState(w, t)
    IN  IF w1.ps[t].penPath # NoPath
        THEN w1
        ELSE LET w2 == [w1 EXCEPT !.ps[t].penType = PLOTTER]
                 w3 == UpdatePenSkinFor(StartPenPath(w2, t, tg, spmm), t)
                 w4 == AddListener(w3, t)
             IN  [w4 EXCEPT !.ps[t].referencePoint = NoPoint]

PlotAppends(w, t, tg, spmm) ==
    LET w1 == GetPenState(w, t)
    IN  IF w1.ps[t].penPath # NoPath
        THEN IF w1.ps[t].penType = TRAIL
             THEN w1
             ELSE LET w2 == [w1 EXCEPT !.ps[t].referencePoint = NoPoint]
                  IN  OnTargetMoved(w2, t, tg, FALSE, spmm)
        ELSE LET w2 == [w1 EXCEPT !.ps[t].penType = PLOTTER]
                 w3 == UpdatePenSkinFor(StartPenPath(w2, t, tg, spmm), t)
                 w4 == AddListener(w3, t)
             IN  [w4 EXCEPT !.ps[t].referencePoint = NoPoint]

\* plot that drops the reference point of a trail as well
PlotDropsReference(w, t, tg, spmm) ==
    LET w1 == GetPenState(w, t)
    IN  IF w1.ps[t].penPath # NoPath
        THEN [w1 EXCEPT !.ps[t].referencePoint = NoPoint]
        ELSE LET w2 == [w1 EXCEPT !.ps[t].penType = PLOTTER]
                 w3 == UpdatePenSkinFor(StartPenPath(w2, t, tg, spmm), t)
                 w4 == AddListener(w3, t)
             IN  [w4 EXCEPT !.ps[t].referencePoint = NoPoint]

Plot(w, t, tg, spmm) ==
    LET w1 == GetPenState(w, t)
    IN  IF w1.ps[t].penPath # NoPath
        THEN IF w1.ps[t].penType = TRAIL
             THEN w1
             ELSE [w1 EXCEPT !.ps[t].referencePoint = NoPoint]
        ELSE LET w2 == [w1 EXCEPT !.ps[t].penType = PLOTTER]
                 w3 == UpdatePenSkinFor(StartPenPath(w2, t, tg, spmm), t)
                 w4 == AddListener(w3, t)
             IN  [w4 EXCEPT !.ps[t].referencePoint = NoPoint]

\* penUp
PenUp(w, t) ==
    IF ~HasState(w, t) \/ w.ps[t].penPath = NoPath
    THEN w
    ELSE RemoveListener(UpdatePenSkinFor(FinishPen(w, t), t), t)

\* penDown
PenDownAlwaysStarts(w, t, penType, tg, spmm) ==
    LET w1 == GetPenState(w, t)
    IN  IF w1.ps[t].penPath # NoPath /\ w1.ps[t].penType = penType
        THEN w1
        ELSE LET w2 == IF w1.ps[t].penPath # NoPath THEN PenUp(w1, t) ELSE w1
                 w3 == [w2 EXCEPT !.ps[t].penType = penType]
                 w4 == StartPenPath(w3, t, tg, spmm)
             IN  AddListener(UpdatePenSkinFor(w4, t), t)

\* penDown that registers the handler only when it starts a trail
PenDownTrailListens(w, t, penType, tg, spmm) ==
    LET w1 == GetPenState(w, t)
    IN  IF w1.ps[t].penPath # NoPath /\ w1.ps[t].penType = penType
        THEN w1
        ELSE LET w2 == IF w1.ps[t].penPath # NoPath THEN PenUp(w1, t) ELSE w1
                 w3 == [w2 EXCEPT !.ps[t].penType = penType]
                 w4 == IF penType = TRAIL THEN StartPenPath(w3, t, tg, spmm) ELSE w3
                 w5 == UpdatePenSkinFor(w4, t)
             IN  IF penType = TRAIL THEN AddListener(w5, t) ELSE w5

\* penDown that changes the pen type without penUp
PenDownKeepsPath(w, t, penType, tg, spmm) ==
    LET w1 == GetPenState(w, t)
    IN  IF w1.ps[t].penPath # NoPath /\ w1.ps[t].penType = penType
        THEN w1
        ELSE LET w3 == [w1 EXCEPT !.ps[t].penType = penType]
                 w4 == IF penType = TRAIL THEN StartPenPath(w3, t, tg, spmm) ELSE w3
             IN  AddListener(UpdatePenSkinFor(w4, t), t)

\* penDown that starts over although a path of the same type is open
PenDownAgain(w, t, penType, tg, spmm) ==
    LET w1 == GetPenState(w, t)
        w2 == IF w1.ps[t].penPath # NoPath THEN PenUp(w1, t) ELSE w1
        w3 == [w2 EXCEPT !.ps[t].penType = penType]
        w4 == IF penType = TRAIL THEN StartPenPath(w3, t, tg, spmm) ELSE w3
    IN  AddListener(UpdatePenSkinFor(w4, t), t)

PenDown(w, t, penType, tg, spmm) ==
    LET w1 == GetPenState(w, t)
    IN  IF w1.ps[t].penPath # NoPath /\ w1.ps[t].penType = penType
        THEN w1
        ELSE LET w2 == IF w1.ps[t].penPath # NoPath THEN PenUp(w1, t) ELSE w1
                 w3 == [w2 EXCEPT !.ps[t].penType = penType]
                 w4 == IF penType = TRAIL THEN StartPenPath(w3, t, tg, spmm) ELSE w3
             IN  AddListener(UpdatePenSkinFor(w4, t), t)

\* _clampPenSize that takes the magnitude of the requested size
ClampPenSizeAbs(requestedSize) == IF requestedSize > 0 THEN requestedSize ELSE -requestedSize

\* _clampPenSize
ClampPenSize(requestedSize) == IF requestedSize > 0 THEN requestedSize ELSE 0

\* setPenSizeTo
SetPenSizeToInPlace(w, t, size, tg, spmm) ==
    LET w1 == GetPenState(w, t)
        newPenSize == ClampPenSize(size)
    IN  IF w1.ps[t].penAttributes.diameter = newPenSize
        THEN w1
        ELSE LET w2 == [w1 EXCEPT !.ps[t].penAttributes.diameter = newPenSize]
                 path == w2.ps[t].penPath
             IN  IF path # NoPath
                 THEN [w2 EXCEPT !.docs[path.doc][path.idx].stroke.width = newPenSize * spmm]
                 ELSE w2

SetPenSizeTo(w, t, size, tg, spmm) ==
    LET w1 == GetPenState(w, t)
        newPenSize == ClampPenSize(size)
    IN  IF w1.ps[t].penAttributes.diameter = newPenSize
        THEN w1
        ELSE LET w2 == [w1 EXCEPT !.ps[t].penAttributes.diameter = newPenSize]
             IN  IF w2.ps[t].penPath # NoPath
                 THEN StartPenPath(w2, t, tg, spmm)
                 ELSE w2

\* Cast.toRgbColorObject(args.COLOR): [rgb, a], a = 0 when the colour has no
\* alpha component
ColorArgs == {[rgb |-> "black", a |-> 0], [rgb |-> "red", a |-> 255]}

OpacityArgs == {50}

\* setPenColorToColor
SetPenColorToColor(w, t, rgba, tg, spmm) ==
    LET w1 == GetPenState(w, t)
        opacity == 100 - ((rgba.a * 100) \div 255)
    IN  IF /\ w1.ps[t].penAttributes.color3b = rgba.rgb
           /\ w1.ps[t].penAttributes.opacity = opacity
        THEN w1
        ELSE LET w2 == [w1 EXCEPT !.ps[t].penAttributes.color3b = rgba.rgb,
                                  !.ps[t].penAttributes.opacity = opacity]
             IN  IF w2.ps[t].penPath # NoPath
                 THEN StartPenPath(w2, t, tg, spmm)
                 ELSE w2

\* setPenOpacity
SetPenOpacity(w, t, percent, tg, spmm) ==
    LET w1 == GetPenState(w, t)
        newOpacity == IF percent < 0 THEN 0 ELSE IF percent > 100 THEN 100 ELSE percent
    IN  IF w1.ps[t].penAttributes.opacity = newOpacity
        THEN w1
        ELSE LET w2 == [w1 EXCEPT !.ps[t].penAttributes.opacity = newOpacity]
             IN  IF w2.ps[t].penPath # NoPath
                 THEN StartPenPath(w2, t, tg, spmm)
                 ELSE w2

\* penPath.fill(...) of the fill setters: 'none' sets the fill attribute only,
\* the fill-opacity attribute of the element stays
SetPathFill(w, t) ==
    LET attrs == w.ps[t].penAttributes
        path == w.ps[t].penPath
    IN  [w EXCEPT !.docs[path.doc][path.idx].fill =
                      IF attrs.fillOpacity > 0
                      THEN [color |-> attrs.fillColor3b, opacity |-> attrs.fillOpacity]
                      ELSE [@ EXCEPT !.color = "none"]]

\* setFillColorToColor
SetFillColorToColor(w, t, rgba) ==
    LET w1 == GetPenState(w, t)
        opacity == 100 - ((rgba.a * 100) \div 255)
    IN  IF /\ w1.ps[t].penAttributes.fillColor3b = rgba.rgb
           /\ w1.ps[t].penAttributes.fillOpacity = opacity
        THEN w1
        ELSE LET w2 == [w1 EXCEPT !.ps[t].penAttributes.fillColor3b = rgba.rgb,
                                  !.ps[t].penAttributes.fillOpacity = opacity]
             IN  IF w2.ps[t].penPath # NoPath
                 THEN UpdatePenSkinFor(SetPathFill(w2, t), t)
                 ELSE w2

\* The OPACITY arguments of setFillOpacity, in percent
FillOpacityArgs == {0, 50}

\* setFillOpacity whose new value is for the paths started later only
SetFillOpacityLater(w, t, percent) ==
    LET w1 == GetPenState(w, t)
        newOpacity == IF percent < 0 THEN 0 ELSE IF percent > 100 THEN 100 ELSE percent
    IN  IF w1.ps[t].penAttributes.fillOpacity = newOpacity
        THEN w1
        ELSE LET w2 == [w1 EXCEPT !.ps[t].penAttributes.fillOpacity = newOpacity]
             IN  IF w2.ps[t].penPath # NoPath
                 THEN UpdatePenSkinFor(w2, t)
                 ELSE w2

\* setFillOpacity
SetFillOpacity(w, t, percent) ==
    LET w1 == GetPenState(w, t)
        newOpacity == IF percent < 0 THEN 0 ELSE IF percent > 100 THEN 100 ELSE percent
    IN  IF w1.ps[t].penAttributes.fillOpacity = newOpacity
        THEN w1
        ELSE LET w2 == [w1 EXCEPT !.ps[t].penAttributes.fillOpacity = newOpacity]
             IN  IF w2.ps[t].penPath # NoPath
                 THEN UpdatePenSkinFor(SetPathFill(w2, t), t)
                 ELSE w2

\* setLineShape
SetLineShape(w, t, newLineShape) ==
    LET w1 == GetPenState(w, t)
    IN  IF w1.ps[t].penAttributes.lineShape = newLineShape
        THEN w1
        ELSE [w1 EXCEPT !.ps[t].penAttributes.lineShape = newLineShape]

\* stamp: an image of the target's drawable is added to the drawing and pushed
Stamp(w, t, tg) ==
    LET w1 == GetPenState(w, t)
        stampImage == [kind |-> "image", at |-> <<tg.x, tg.y>>]
        w2 == [w1 EXCEPT !.docs[w1.ps[t].drawing] = Append(@, stampImage)]
    IN  UpdatePenSkinFor(w2, t)

TOP == "top"

BOTTOM == "bottom"

CHANGE_LAYER == {TOP, BOTTOM}

UP == "up"

DOWN == "down"

MOVE_LAYER == {UP, DOWN}

\* the place of a drawable in the draw list of the pen layer, 0 when it has none
OrderOf(ord, drawableID) ==
    IF \E i \in 1..Len(ord) : ord[i] = drawableID
    THEN CHOOSE i \in 1..Len(ord) : ord[i] = drawableID
    ELSE 0

\* renderer.setDrawableOrder within the pen layer group: the drawable is moved
\* to place newIndex, clamped to the group; a drawable that is not in the
\* group is left alone
SetDrawableOrder(ord, drawableID, newIndex) ==
    IF OrderOf(ord, drawableID) = 0
    THEN ord
    ELSE LET rest == SelectSeq(ord, LAMBDA x : x # drawableID)
             k == IF newIndex < 1 THEN 1 ELSE IF newIndex > Len(ord) THEN Len(ord) ELSE newIndex
         IN  SubSeq(rest, 1, k - 1) \o <<drawableID>> \o SubSeq(rest, k, Len(rest))

\* _moveLayerUp: nLayers = Math.min(nLayers, topOrder - drawableOrder), relative
MoveLayerUp(ord, drawableID, nLayers) ==
    LET drawableOrder == OrderOf(ord, drawableID)
        n == IF nLayers < Len(ord) - drawableOrder THEN nLayers ELSE Len(ord) - drawableOrder
    IN  SetDrawableOrder(ord, drawableID, drawableOrder + n)

\* _moveLayerDown
MoveLayerDown(ord, drawableID, nLayers) == MoveLayerUp(ord, drawableID, 0 - nLayers)

\* changeLayerTo
ChangeLayerTo(w, t, layer) ==
    LET w1 == GetPenState(w, t)
        id == w1.ps[t].drawableID
    IN  IF layer = TOP
        THEN [w1 EXCEPT !.ord = SetDrawableOrder(@, id, Len(@))]
        ELSE IF layer = BOTTOM
        THEN [w1 EXCEPT !.ord = SetDrawableOrder(@, id, 1)]
        ELSE w1

\* moveLayerBy
MoveLayerBy(w, t, layerCount, direction) ==
    LET w1 == GetPenState(w, t)
        id == w1.ps[t].drawableID
    IN  IF direction = UP
        THEN [w1 EXCEPT !.ord = MoveLayerUp(@, id, layerCount)]
        ELSE IF direction = DOWN
        THEN [w1 EXCEPT !.ord = MoveLayerDown(@, id, layerCount)]
        ELSE w1

\* target.isOriginal of the target that runtime.getTargetById finds
IsOriginal(t) == t \in Originals

\* destroyPenLayerForID that releases the layer of clones too
DestroyPenLayerForIDOfAny(w, t) ==
    IF ~HasState(w, t)
    THEN w
    ELSE LET id == w.ps[t].skinID
             w1 == IF id \in SkinIds
                   THEN [w EXCEPT !.skins[id] = [state |-> "destroyed", svg |-> <<>>],
                                  !.ord = SelectSeq(@, LAMBDA x : x # id)]
                   ELSE w
         IN  Collect([w1 EXCEPT !.ps[t] = NoState])

\* destroyPenLayerForID: the drawable and the skin are destroyed for an
\* original target only; the entry is deleted for every target
DestroyPenLayerForID(w, t) ==
    IF ~HasState(w, t)
    THEN w
    ELSE LET id == w.ps[t].skinID
             w1 == IF IsOriginal(t) /\ id \in SkinIds
                   THEN [w EXCEPT !.skins[id] = [state |-> "destroyed", svg |-> <<>>],
                                  !.ord = SelectSeq(@, LAMBDA x : x # id)]
                   ELSE w
         IN  Collect([w1 EXCEPT !.ps[t] = NoState])

\* onTargetWillExit
OnTargetWillExit(w, t) ==
    IF HasState(w, t)
    THEN DestroyPenLayerForID(PenUp(w, t), t)
    ELSE w

\* onRuntimeDisposed: destroyPenLayerForID for every key of _penStates
RECURSIVE DestroyAll(_, _)
DestroyAll(w, ts) ==
    IF ts = {} THEN w
    ELSE LET t == CHOOSE u \in ts : TRUE
         IN  DestroyAll(DestroyPenLayerForID(w, t), ts \ {t})

OnRuntimeDisposed(w) == DestroyAll(w, {t \in AllTargets : HasState(w, t)})

\* onTargetCreated: the state of a clone.  penPath and referencePoint are
\* the null of DEFAULT_PEN_STATE; the drawing is a new group in the drawing
\* of the source
OnTargetCreated(w, newTarget, sourceTarget, g) ==
    IF ~HasState(w, sourceTarget)
    THEN w
    ELSE LET sourcePenState == w.ps[sourceTarget]
             newPenState == [DEFAULT_PEN_STATE EXCEPT
                                !.skinID = sourcePenState.skinID,
                                !.drawableID = sourcePenState.drawableID,
                                !.penType = sourcePenState.penType,
                                !.penAttributes = sourcePenState.penAttributes,
                                !.drawing = g]
         IN  [w EXCEPT !.ps[newTarget] = newPenState,
                       !.docs[sourcePenState.drawing] =
                           Append(@, [kind |-> "group", key |-> g])]

\* target.sprite.name: a clone belongs to the sprite of its source
SpriteName == [t \in AllTargets |-> "Sprite1"]

\* What prompt() returns: null, the empty string, or a name
PromptNull == "null"

PromptResults == {PromptNull, "", "vpen"}

\* _getDrawableOrderFor: -1 without a pen state, else the place of the
\* drawable in the draw list
GetDrawableOrderFor(w, t) ==
    IF ~HasState(w, t) THEN -1 ELSE OrderOf(w.ord, w.ps[t].drawableID)

\* _addSpriteDrawingTo: a group named after the sprite with a copy of every
\* child of the drawing, added to the container unless there is no drawing
\* or it has no child
AddSpriteDrawingTo(w, t, svgContainer) ==
    IF ~HasState(w, t) \/ w.ps[t].drawing = NoDrawing
    THEN svgContainer
    ELSE IF Len(w.docs[w.ps[t].drawing]) = 0
    THEN svgContainer
    ELSE Append(svgContainer,
                [kind |-> "group", id |-> SpriteName[t], kids |-> DrawingSvg(w, t)])

\* Array.prototype.sort with (a, b) => order(a) - order(b), which is stable:
\* sorted is in order, t goes behind the targets that are not above it
InsertByOrder(w, sorted, t) ==
    LET k == Cardinality({i \in 1..Len(sorted) :
                             GetDrawableOrderFor(w, sorted[i]) <= GetDrawableOrderFor(w, t)})
    IN  SubSeq(sorted, 1, k) \o <<t>> \o SubSeq(sorted, k + 1, Len(sorted))

RECURSIVE SortByOrder(_, _)
SortByOrder(w, ts) ==
    IF ts = <<>> THEN <<>>
    ELSE InsertByOrder(w, SortByOrder(w, SubSeq(ts, 1, Len(ts) - 1)), ts[Len(ts)])

RECURSIVE AddSpriteDrawings(_, _, _)
AddSpriteDrawings(w, ts, svgContainer) ==
    IF ts = <<>> THEN svgContainer
    ELSE AddSpriteDrawings(w, Tail(ts), AddSpriteDrawingTo(w, Head(ts), svgContainer))

\* _saveSVGAsFile: the file handed to FileSaver.saveAs
SaveSVGAsFile(svg, fileName) == [name |-> fileName, svg |-> svg]

\* downloadSpriteDrawing that takes only null for a cancelled prompt
DownloadSpriteDrawingNullOnly(w, t, fileName) ==
    IF ~HasState(w, t) \/ w.ps[t].drawing = NoDrawing
    THEN [result |-> "no drawing", file |-> NoFile]
    ELSE IF fileName = PromptNull
    THEN [result |-> "cancelled", file |-> NoFile]
    ELSE [result |-> "saved",
          file |-> SaveSVGAsFile(AddSpriteDrawingTo(w, t, <<>>), fileName)]

\* downloadSpriteDrawing: [result, file]; fileName is what prompt() returns
DownloadSpriteDrawing(w, t, fileName) ==
    IF ~HasState(w, t) \/ w.ps[t].drawing = NoDrawing
    THEN [result |-> "no drawing", file |-> NoFile]
    ELSE IF fileName = PromptNull \/ fileName = ""
    THEN [result |-> "cancelled", file |-> NoFile]
    ELSE [result |-> "saved",
          file |-> SaveSVGAsFile(AddSpriteDrawingTo(w, t, <<>>), fileName)]

\* downloadAllDrawing without the sort by drawable order
DownloadAllDrawingUnsorted(w, runtimeTargets, fileName) ==
    IF fileName = PromptNull \/ fileName = ""
    THEN [result |-> "cancelled", file |-> NoFile]
    ELSE [result |-> "saved",
          file |-> SaveSVGAsFile(AddSpriteDrawings(w, runtimeTargets, <<>>), fileName)]

\* downloadAllDrawing: [result, file]; runtimeTargets is runtime.targets, all
\* of them sprites
DownloadAllDrawing(w, runtimeTargets, fileName) ==
    IF fileName = PromptNull \/ fileName = ""
    THEN [result |-> "cancelled", file |-> NoFile]
    ELSE [result |-> "saved",
          file |-> SaveSVGAsFile(
                       AddSpriteDrawings(w, SortByOrder(w, runtimeTargets), <<>>),
                       fileName)]

----------------------------------------------------------------------------
(* The state machine: one action per block or host event.                   *)

World ==
    [ps |-> penStates, docs |-> docs, skins |-> skins, lst |-> listeners, ord |-> drawOrder]

Commit(w) ==
    /\ penStates' = w.ps
    /\ docs' = w.docs
    /\ skins' = w.skins
    /\ listeners' = w.lst
    /\ drawOrder' = w.ord

IsOpen(w, t) == HasState(w, t) /\ w.ps[t].penPath # NoPath

OpenCmdsIn(w, t) == IF IsOpen(w, t) THEN PathCmds(w, t) ELSE <<>>

\* The bounds: documents of at most kidLimit children, open paths of at most
\* cmdLimit commands, at most MaxListeners registrations.
Fits(w) ==
    /\ \A d \in DocKeys : Len(w.docs[d]) <= kidLimit
    /\ \A t \in AllTargets : Len(OpenCmdsIn(w, t)) <= cmdLimit
    /\ \A t \in AllTargets : w.lst[t] <= MaxListeners

Alive(t) == targets[t].alive

Min(a, b) == IF a < b THEN a ELSE b

\* run after an operation: 0 when it started the open path, -1 when no path
\* is open or when the operation is not a motion event
RunAfter(w, t, started) ==
    IF ~IsOpen(w, t) THEN -1 ELSE IF started THEN 0 ELSE -1

\* The state after construction; maxCmds and maxKids are the bounds of the
\* behaviour.  ever is "none", "mark" (plot or stamp but never penDown) or
\* "penDown" in a behaviour that starts with "none", and stays "any" in a
\* behaviour that does not follow it.
InitWith(maxCmds, maxKids, ever) ==
    /\ penStates = [t \in AllTargets |-> NoState]
    /\ docs = [d \in DocKeys |-> <<>>]
    /\ targets = [t \in AllTargets |-> [alive |-> t \in Originals, x |-> 0, y |-> 0]]
    /\ listeners = [t \in AllTargets |-> 0]
    /\ skins = [i \in SkinIds |-> NoSkin]
    /\ drawOrder = <<>>
    /\ stepPerMM = 2
    /\ cmdLimit = maxCmds
    /\ kidLimit = maxKids
    /\ saved = NoFile
    /\ result = NoResult
    /\ run = [t \in AllTargets |-> -1]
    /\ hist = [t \in AllTargets |-> [down |-> FALSE, mode |-> "up", ever |-> ever]]

Init == InitWith(MaxCmds, MaxKids, "any")

penDown(t, penType) ==
    /\ Alive(t)
    /\ LET w == PenDown(World, t, penType, targets[t], stepPerMM)
           noop == IsOpen(World, t) /\ penStates[t].penType = penType
       IN  /\ Fits(w)
           /\ Commit(w)
           /\ run' = [run EXCEPT ![t] = RunAfter(w, t, ~noop /\ penType = TRAIL)]
    /\ hist' = [hist EXCEPT ![t] =
                  [down |-> TRUE,
                   mode |-> IF penType = TRAIL THEN "trail"
                            ELSE IF @.mode = "plotting" THEN "plotting"
                            ELSE "armed",
                   ever |-> IF @.ever = "any" THEN "any" ELSE "penDown"]]
    /\ UNCHANGED <<targets, stepPerMM, cmdLimit, kidLimit, saved, result>>

penUp(t) ==
    /\ Alive(t)
    /\ LET w == PenUp(World, t)
       IN  /\ Commit(w)
           /\ run' = [run EXCEPT ![t] = RunAfter(w, t, FALSE)]
    /\ hist' = [hist EXCEPT ![t].down = FALSE, ![t].mode = "up"]
    /\ UNCHANGED <<targets, stepPerMM, cmdLimit, kidLimit, saved, result>>

plot(t) ==
    /\ Alive(t)
    /\ LET w == Plot(World, t, targets[t], stepPerMM)
       IN  /\ Fits(w)
           /\ Commit(w)
           /\ run' = [run EXCEPT ![t] = RunAfter(w, t, ~IsOpen(World, t))]
    /\ hist' = [hist EXCEPT ![t].mode = IF @ = "trail" THEN "trail" ELSE "plotting",
                            ![t].ever = IF @ = "none" THEN "mark" ELSE @]
    /\ UNCHANGED <<targets, stepPerMM, cmdLimit, kidLimit, saved, result>>

\* The host's emit of EVENT_TARGET_MOVED: every registration is called
RECURSIVE Emit(_, _, _, _, _, _)
Emit(w, t, tg, isForce, spmm, n) ==
    IF n = 0 THEN w
    ELSE Emit(OnTargetMoved(w, t, tg, isForce, spmm), t, tg, isForce, spmm, n - 1)

\* The target moves to p (RenderedTarget.setXY) and the listeners are called
targetMoved(t, p, isForce) ==
    /\ Alive(t)
    /\ LET tg == [targets[t] EXCEPT !.x = p[1], !.y = p[2]]
           w == Emit(World, t, tg, isForce, stepPerMM, listeners[t])
           restart == isForce /\ penStates[t].penType = TRAIL
       IN  /\ Fits(w)
           /\ Commit(w)
           /\ targets' = [targets EXCEPT ![t] = tg]
           /\ run' = [run EXCEPT ![t] =
                        IF ~IsOpen(w, t) THEN -1
                        ELSE IF restart THEN 0
                        ELSE IF @ = -1 THEN -1
                        ELSE Min(@ + listeners[t], MaxLongCmds)]
    /\ UNCHANGED <<stepPerMM, cmdLimit, kidLimit, saved, result, hist>>

setPenSizeTo(t, size) ==
    /\ Alive(t)
    /\ LET w == SetPenSizeTo(World, t, size, targets[t], stepPerMM)
           changed == ~HasState(World, t) \/ ClampPenSize(size) # GetPenState(World, t).ps[t].penAttributes.diameter
       IN  /\ Fits(w)
           /\ Commit(w)
           /\ run' = [run EXCEPT ![t] = RunAfter(w, t, changed /\ IsOpen(World, t))]
    /\ UNCHANGED <<targets, stepPerMM, cmdLimit, kidLimit, saved, result, hist>>

setPenColorToColor(t, rgba) ==
    /\ Alive(t)
    /\ LET w == SetPenColorToColor(World, t, rgba, targets[t], stepPerMM)
           changed == w.ps[t].penAttributes # GetPenState(World, t).ps[t].penAttributes
       IN  /\ Fits(w)
           /\ Commit(w)
           /\ run' = [run EXCEPT ![t] = RunAfter(w, t, changed /\ IsOpen(World, t))]
    /\ UNCHANGED <<targets, stepPerMM, cmdLimit, kidLimit, saved, result, hist>>

setPenOpacity(t, percent) ==
    /\ Alive(t)
    /\ LET w == SetPenOpacity(World, t, percent, targets[t], stepPerMM)
           changed == w.ps[t].penAttributes # GetPenState(World, t).ps[t].penAttributes
       IN  /\ Fits(w)
           /\ Commit(w)
           /\ run' = [run EXCEPT ![t] = RunAfter(w, t, changed /\ IsOpen(World, t))]
    /\ UNCHANGED <<targets, stepPerMM, cmdLimit, kidLimit, saved, result, hist>>

setFillColorToColor(t, rgba) ==
    /\ Alive(t)
    /\ LET w == SetFillColorToColor(World, t, rgba)
       IN  /\ Commit(w)
           /\ run' = [run EXCEPT ![t] = RunAfter(w, t, FALSE)]
    /\ UNCHANGED <<targets, stepPerMM, cmdLimit, kidLimit, saved, result, hist>>

setFillOpacity(t, percent) ==
    /\ Alive(t)
    /\ LET w == SetFillOpacity(World, t, percent)
       IN  /\ Commit(w)
           /\ run' = [run EXCEPT ![t] = RunAfter(w, t, FALSE)]
    /\ UNCHANGED <<targets, stepPerMM, cmdLimit, kidLimit, saved, result, hist>>

setLineShape(t, lineShape) ==
    /\ Alive(t)
    /\ LET w == SetLineShape(World, t, lineShape)
       IN  /\ Commit(w)
           /\ run' = [run EXCEPT ![t] = RunAfter(w, t, FALSE)]
    /\ UNCHANGED <<targets, stepPerMM, cmdLimit, kidLimit, saved, result, hist>>

clear(t) ==
    /\ Alive(t)
    /\ LET w == ClearForTarget(World, t, targets[t], stepPerMM)
       IN  /\ Commit(w)
           /\ run' = [run EXCEPT ![t] = RunAfter(w, t, IsOpen(World, t))]
    /\ UNCHANGED <<targets, stepPerMM, cmdLimit, kidLimit, saved, result, hist>>

stamp(t) ==
    /\ Alive(t)
    /\ LET w == Stamp(World, t, targets[t])
       IN  /\ Fits(w)
           /\ Commit(w)
    /\ hist' = [hist EXCEPT ![t].ever = IF @ = "none" THEN "mark" ELSE @]
    /\ UNCHANGED <<targets, stepPerMM, cmdLimit, kidLimit, saved, result, run>>

changeLayerTo(t, layer) ==
    /\ Alive(t)
    /\ Commit(ChangeLayerTo(World, t, layer))
    /\ UNCHANGED <<targets, stepPerMM, cmdLimit, kidLimit, saved, result, run, hist>>

moveLayerBy(t, layerCount, direction) ==
    /\ Alive(t)
    /\ Commit(MoveLayerBy(World, t, layerCount, direction))
    /\ UNCHANGED <<targets, stepPerMM, cmdLimit, kidLimit, saved, result, run, hist>>

\* The runtime's targetWasRemoved event
targetWasRemoved(t) ==
    /\ Alive(t)
    /\ LET w == OnTargetWillExit(World, t)
       IN  Commit(w)
    /\ targets' = [targets EXCEPT ![t].alive = FALSE]
    /\ run' = [run EXCEPT ![t] = -1]
    /\ hist' = [hist EXCEPT ![t].down = FALSE, ![t].mode = "up"]
    /\ UNCHANGED <<stepPerMM, cmdLimit, kidLimit, saved, result>>

\* The bound on the renderer's skins: a clone is made while there is a skin
\* for it and for its source, or the skin of the source for both
SkinsSuffice(sourceTarget) ==
    \/ HasState(World, sourceTarget) /\ penStates[sourceTarget].skinID \in SkinIds
    \/ \A i \in SkinIds : skins[i].state = "unused"

\* The runtime's targetWasCreated event for a clone made of sourceTarget: the
\* new target has the position of its source and no listener
targetCreated(newTarget, sourceTarget) ==
    /\ ~Alive(newTarget)
    /\ Alive(sourceTarget)
    /\ SkinsSuffice(sourceTarget)
    /\ \E g \in GroupKeys :
           /\ RootKey(World, g) = g
           /\ docs[g] = <<>>
           /\ LET w == OnTargetCreated(World, newTarget, sourceTarget, g)
              IN  /\ Fits(w)
                  /\ Commit([w EXCEPT !.lst[newTarget] = 0])
    /\ targets' = [targets EXCEPT ![newTarget] = [targets[sourceTarget] EXCEPT !.alive = TRUE]]
    /\ run' = [run EXCEPT ![newTarget] = -1]
    /\ hist' = [hist EXCEPT ![newTarget].down = FALSE, ![newTarget].mode = "up"]
    /\ UNCHANGED <<stepPerMM, cmdLimit, kidLimit, saved, result>>

\* The runtime's RUNTIME_DISPOSED event; the runtime's targets are disposed
\* with it
runtimeDisposed ==
    /\ \E t \in AllTargets : Alive(t)
    /\ Commit(OnRuntimeDisposed(World))
    /\ targets' = [t \in AllTargets |-> [targets[t] EXCEPT !.alive = FALSE]]
    /\ run' = [t \in AllTargets |-> -1]
    /\ hist' = [t \in AllTargets |-> [hist[t] EXCEPT !.down = FALSE, !.mode = "up"]]
    /\ UNCHANGED <<stepPerMM, cmdLimit, kidLimit, saved, result>>

\* runtime.targets: the targets that exist, in the order of their creation
RuntimeTargets == SelectSeq(<<"s1", "c1">>, LAMBDA t : targets[t].alive)

\* What a download block leaves behind: its return value, and the file if
\* one was saved
Downloaded(r) ==
    /\ result' = r.result
    /\ saved' = IF r.result = "saved" THEN r.file ELSE saved
    /\ UNCHANGED <<penStates, docs, targets, listeners, skins, drawOrder, stepPerMM,
                   cmdLimit, kidLimit, run, hist>>

downloadSpriteDrawing(t, fileName) ==
    /\ Alive(t)
    /\ Downloaded(DownloadSpriteDrawing(World, t, fileName))

downloadAllDrawing(fileName) ==
    Downloaded(DownloadAllDrawing(World, RuntimeTargets, fileName))

Next ==
    \E t \in AllTargets :
        \/ \E penType \in PEN_TYPES : penDown(t, penType)
        \/ penUp(t)
        \/ plot(t)
        \/ \E p \in Positions, isForce \in BOOLEAN : targetMoved(t, p, isForce)
        \/ \E lineShape \in LINE_SHAPES : setLineShape(t, lineShape)
        \/ clear(t)
        \/ targetWasRemoved(t)

Spec == Init /\ [][Next]_vars

\* Longer paths, for a target that stays within the closing tolerance of its
\* first position.
InitLong == InitWith(MaxLongCmds, MaxKids, "any")

NextLong ==
    \E t \in AllTargets :
        \/ \E penType \in PEN_TYPES : penDown(t, penType)
        \/ penUp(t)
        \/ plot(t)
        \/ \E p \in NearPositions, isForce \in BOOLEAN : targetMoved(t, p, isForce)
        \/ \E lineShape \in LINE_SHAPES : setLineShape(t, lineShape)
        \/ clear(t)
        \/ targetWasRemoved(t)

SpecLong == InitLong /\ [][NextLong]_vars

\* Short paths in a drawing of several children.
InitKids == InitWith(MaxCmds, MaxManyKids, "any")

NextKids ==
    \E t \in AllTargets :
        \/ \E penType \in PEN_TYPES : penDown(t, penType)
        \/ penUp(t)
        \/ plot(t)
        \/ \E p \in Positions : targetMoved(t, p, FALSE)
        \/ clear(t)

SpecKids == InitKids /\ [][NextKids]_vars

\* Stroke attribute changes, on straight lines near the first position.
InitAttr == InitWith(MaxShortCmds, MaxManyKids, "any")

NextAttr ==
    \E t \in AllTargets :
        \/ penDown(t, TRAIL)
        \/ penUp(t)
        \/ plot(t)
        \/ \E p \in NearPositions : targetMoved(t, p, FALSE)
        \/ \E size \in Diameters : setPenSizeTo(t, size)
        \/ \E rgba \in ColorArgs : setPenColorToColor(t, rgba)
        \/ \E percent \in OpacityArgs : setPenOpacity(t, percent)

SpecAttr == InitAttr /\ [][NextAttr]_vars

\* Targets that are given blocks other than penDown first.
InitIdle == InitWith(MaxShortCmds, MaxManyKids, "none")

NextIdle ==
    \E t \in AllTargets :
        \/ penDown(t, TRAIL)
        \/ penUp(t)
        \/ plot(t)
        \/ stamp(t)
        \/ clear(t)
        \/ \E p \in NearPositions : targetMoved(t, p, FALSE)
        \/ \E size \in Diameters : setPenSizeTo(t, size)
        \/ setLineShape(t, CURVE)
        \/ \E percent \in OpacityArgs : setPenOpacity(t, percent)
        \/ \E layer \in CHANGE_LAYER : changeLayerTo(t, layer)
        \/ \E direction \in MOVE_LAYER : moveLayerBy(t, 1, direction)

SpecIdle == InitIdle /\ [][NextIdle]_vars

\* A sprite and its clone.
InitClone == InitWith(MaxShortCmds, MaxManyKids, "any")

NextClone ==
    \/ \E t \in AllTargets :
        \/ penDown(t, TRAIL)
        \/ penUp(t)
        \/ \E p \in NearPositions : targetMoved(t, p, FALSE)
        \/ clear(t)
        \/ targetWasRemoved(t)
    \/ \E newTarget \in Clones, sourceTarget \in Originals : targetCreated(newTarget, sourceTarget)
    \/ runtimeDisposed

SpecClone == InitClone /\ [][NextClone]_vars

\* A sprite and its clone, their layers, and the download blocks.
\* The SIZE arguments of setPenSizeTo, in mm: negative, zero and positive
SizeArgs == {-2, 0, 2}

InitSize == InitWith(MaxShortCmds, MaxManyKids, "any")

NextSize ==
    \E t \in AllTargets :
        \/ penDown(t, TRAIL)
        \/ penUp(t)
        \/ \E p \in NearPositions : targetMoved(t, p, FALSE)
        \/ \E size \in SizeArgs : setPenSizeTo(t, size)
        \/ plot(t)
        \/ clear(t)

SpecSize == InitSize /\ [][NextSize]_vars

\* A trail pen whose line shape is switched while it draws
InitMixed == InitWith(MaxMixedCmds, MaxKids, "any")

NextMixed ==
    \E t \in AllTargets :
        \/ penDown(t, TRAIL)
        \/ penUp(t)
        \/ \E p \in NearPositions : targetMoved(t, p, FALSE)
        \/ \E lineShape \in LINE_SHAPES : setLineShape(t, lineShape)

SpecMixed == InitMixed /\ [][NextMixed]_vars

\* Pens that are put down, of either type, and never lifted
InitSwitch == InitWith(MaxCmds, MaxManyKids, "any")

NextSwitch ==
    \E t \in AllTargets :
        \/ \E penType \in PEN_TYPES : penDown(t, penType)
        \/ plot(t)
        \/ \E p \in NearPositions : targetMoved(t, p, FALSE)
        \/ setLineShape(t, CURVE)

SpecSwitch == InitSwitch /\ [][NextSwitch]_vars

\* A pen whose fill is set while it draws
InitFill == InitWith(MaxShortCmds, MaxManyKids, "any")

NextFill ==
    \E t \in AllTargets :
        \/ penDown(t, TRAIL)
        \/ penUp(t)
        \/ plot(t)
        \/ \E p \in NearPositions : targetMoved(t, p, FALSE)
        \/ \E rgba \in ColorArgs : setFillColorToColor(t, rgba)
        \/ \E percent \in FillOpacityArgs : setFillOpacity(t, percent)

SpecFill == InitFill /\ [][NextFill]_vars

InitExport == InitWith(MaxShortCmds, MaxManyKids, "any")

NextExport ==
    \/ \E t \in AllTargets :
        \/ penDown(t, TRAIL)
        \/ clear(t)
        \/ setPenSizeTo(t, 2)
        \/ \E layer \in CHANGE_LAYER : changeLayerTo(t, layer)
        \/ \E fileName \in PromptResults : downloadSpriteDrawing(t, fileName)
    \/ \E newTarget \in Clones, sourceTarget \in Originals : targetCreated(newTarget, sourceTarget)
    \/ \E fileName \in PromptResults : downloadAllDrawing(fileName)

SpecExport == InitExport /\ [][NextExport]_vars

----------------------------------------------------------------------------
(* What the properties read.                                                *)

Open(t) == IsOpen(World, t)

Cmds(t) == OpenCmdsIn(World, t)

Ref(t) == IF HasState(World, t) THEN penStates[t].referencePoint ELSE NoPoint

PenTypeOf(t) == IF HasState(World, t) THEN penStates[t].penType ELSE TRAIL

ShapeOf(t) == IF HasState(World, t) THEN penStates[t].penAttributes.lineShape ELSE STRAIGHT

\* the children of the target's drawing surface
Kids(t) ==
    IF HasState(World, t) /\ penStates[t].drawing # NoDrawing
    THEN docs[penStates[t].drawing]
    ELSE <<>>

Pt(c) == <<c.x, c.y>>

Dist2(p, q) == Sq(p[1] - q[1]) + Sq(p[2] - q[2])

\* the distance between p and q is at most 0.5 units
Within(p, q) == 4 * Dist2(p, q) <= Sq(Unit)

\* the number of draw segments (LineTo and Q commands) of a command array
Segments(a) == Cardinality({i \in 1..Len(a) : a[i].op \in {"L", "Q"}})

IsPrefix(a, b) == Len(a) <= Len(b) /\ SubSeq(b, 1, Len(a)) = a

HasClose(a) == \E i \in 1..Len(a) : a[i].op = "Z"

\* the target's position on the drawing surface: (x + W/2, H/2 - y)
SurfacePos(t) ==
    <<targets[t].x + (StageWidth * Unit) \div 2, (StageHeight * Unit) \div 2 - targets[t].y>>

\* The step finishes the open path of t and opens no new one (penUp, or a
\* penDown that switches from trail to plotter).
Finishing(t) == Open(t) /\ HasState(World, t)' /\ ~Open(t)'

\* The command array of the open path when its provisional tip is retracted.
Retracted(t) == IF Ref(t) = NoPoint THEN Cmds(t) ELSE RemoveLine(Cmds(t), ShapeOf(t))

\* After a Finishing step: the commands of the path that was open, as it is
\* kept in the drawing surface; the empty array when it was discarded.
Persisted(t) ==
    LET i == penStates[t].penPath.idx
    IN  IF Len(Kids(t)') >= i THEN Kids(t)'[i].cmds ELSE <<>>

----------------------------------------------------------------------------
C2_TrailCountNoProvisional ==
    \A t \in AllTargets :
        (Open(t) /\ PenTypeOf(t) = TRAIL /\ run[t] >= 0) =>
            /\ Len(Cmds(t)) = run[t] + 1
            /\ Ref(t) = NoPoint

(* C3.  As stated: a trail path that ends (penUp, pen-type switch, forced    *)
(* move) after N motion events is kept in the drawing surface with all N    *)
(* draw segments; only clear removes them.                                   *)
C3_TrailSegmentsPermanent ==
    [][\A t \in AllTargets :
          (/\ Open(t) /\ PenTypeOf(t) = TRAIL /\ run[t] >= 1
           /\ HasState(World, t)'
           /\ ~Open(t)' \/ run[t]' = 0
           /\ ~clear(t))
          => Segments(Persisted(t)) = run[t]]_vars

(* C4.  As stated: in plotter mode, after K >= 1 consecutive motion events   *)
(* on a new path with no plot in between, the path has 2 commands, for      *)
(* either line shape.                                                        *)
C4_PreviewCountTwo ==
    \A t \in AllTargets :
        (Open(t) /\ PenTypeOf(t) = PLOTTER /\ run[t] >= 1) => Len(Cmds(t)) = 2

(* C4, amended.  After K >= 1 such events the path is the MoveTo followed by *)
(* ONE provisional segment to the target's position, whatever K is: 2       *)
(* commands (M, L) when the line shape is straight, 3 commands (M, Q, T)    *)
(* when it is curve; referencePoint is set.                                  *)
C4_PreviewReplaced ==
    \A t \in AllTargets :
        (Open(t) /\ PenTypeOf(t) = PLOTTER /\ run[t] >= 1) =>
            LET a == Cmds(t)
            IN  /\ Ref(t) # NoPoint
                /\ a[1].op = "M"
                /\ Segments(a) = 1
                /\ Pt(a[Len(a)]) = SurfacePos(t)
                /\ ShapeOf(t) = STRAIGHT => Len(a) = 2 /\ a[2].op = "L"
                /\ ShapeOf(t) = CURVE =>
                       /\ Len(a) = 3 /\ a[2].op = "Q" /\ a[3].op = "T"
                       /\ Pt(a[2]) = Pt(a[1])

C4_Witness ==
    \E t \in AllTargets :
        /\ Open(t) /\ PenTypeOf(t) = PLOTTER /\ run[t] >= 2
        /\ ShapeOf(t) = CURVE /\ Len(Cmds(t)) = 3

\* a motion event of t: the listeners of t are called
Moved(t) == \E p \in Positions, isForce \in BOOLEAN : targetMoved(t, p, isForce)

(* C5.  As stated: in plotter mode one motion event followed by one plot     *)
(* leaves the path with the MoveTo and exactly one draw command (2          *)
(* commands) and referencePoint null, and a later motion event keeps every  *)
(* committed command.                                                        *)
C5_CommitOneCommand ==
    [][\A t \in AllTargets :
          /\ (plot(t) /\ Open(t) /\ PenTypeOf(t) = PLOTTER /\ run[t] = 1) =>
                 /\ Len(Cmds(t)') = 2
                 /\ Ref(t)' = NoPoint
          /\ (Moved(t) /\ Open(t) /\ PenTypeOf(t) = PLOTTER /\ Ref(t) = NoPoint) =>
                 IsPrefix(Cmds(t), Cmds(t)')]_vars

(* C5, amended.  One motion event followed by one plot leaves the command    *)
(* array as the motion event made it, with one segment: M, L for a straight *)
(* line and M, Q, T for a curve, and referencePoint null.  A later motion   *)
(* event keeps the committed commands, except that in curve shape the       *)
(* trailing T is replaced: the committed node becomes the first coordinate  *)
(* pair of the next Q.                                                       *)
C5_CommitKeepsNode ==
    [][\A t \in AllTargets :
          /\ (plot(t) /\ Open(t) /\ PenTypeOf(t) = PLOTTER /\ run[t] = 1) =>
                 /\ Cmds(t)' = Cmds(t)
                 /\ Ref(t)' = NoPoint
                 /\ Segments(Cmds(t)') = 1
                 /\ Len(Cmds(t)') = IF ShapeOf(t) = CURVE THEN 3 ELSE 2
          /\ (Moved(t) /\ Open(t) /\ PenTypeOf(t) = PLOTTER /\ Ref(t) = NoPoint
                /\ Len(Cmds(t)) >= 2) =>
                 LET a == Cmds(t)
                     tip == a[Len(a)]
                 IN  IF ShapeOf(t) = CURVE /\ tip.op = "T"
                     THEN /\ IsPrefix(Pop(a), Cmds(t)')
                          /\ Cmds(t)'[Len(a)].op = "Q"
                          /\ Pt(Cmds(t)'[Len(a)]) = Pt(tip)
                     ELSE IsPrefix(a, Cmds(t)')]_vars

C5_Witness ==
    \E t \in AllTargets :
        /\ Open(t) /\ PenTypeOf(t) = PLOTTER /\ Ref(t) # NoPoint
        /\ Len(Cmds(t)) = 4
        /\ Cmds(t)[2].op = "Q" /\ Cmds(t)[3].op = "Q" /\ Cmds(t)[4].op = "T"

(* C6.  As stated: plot on an open plotter path with a preview pops nothing  *)
(* and appends one more segment at the same position: the path is one       *)
(* command longer and has a fresh preview (referencePoint set).             *)
C6_PlotAppendsPreview ==
    [][\A t \in AllTargets :
          (plot(t) /\ Open(t) /\ PenTypeOf(t) = PLOTTER /\ Ref(t) # NoPoint) =>
              /\ Len(Cmds(t)') = Len(Cmds(t)) + 1
              /\ IsPrefix(Cmds(t), Cmds(t)')
              /\ Ref(t)' # NoPoint]_vars

(* C6, amended.  plot on an open plotter path with a preview only clears     *)
(* referencePoint: the command array and the drawing's children are         *)
(* unchanged, and no preview exists until the next motion event.            *)
C6_PlotOnlyCommits ==
    [][\A t \in AllTargets :
          (plot(t) /\ Open(t) /\ PenTypeOf(t) = PLOTTER /\ Ref(t) # NoPoint) =>
              /\ Cmds(t)' = Cmds(t)
              /\ Kids(t)' = Kids(t)
              /\ Open(t)'
              /\ Ref(t)' = NoPoint]_vars

C6_Witness ==
    \E t \in AllTargets :
        /\ Open(t) /\ PenTypeOf(t) = PLOTTER /\ hist[t].mode = "plotting"
        /\ Ref(t) = NoPoint /\ Len(Cmds(t)) >= 2 /\ run[t] = -1

(* C7.  With the pen up, penDown followed at once by penUp leaves the        *)
(* children of the drawing as they were before the penDown, for either pen  *)
(* type: penDown('trail') adds one path of the single command MoveTo as the *)
(* last child and penUp removes exactly that child; penDown('plotter') adds *)
(* no child and the penUp after it changes nothing.                          *)
C7_DownUpAddsNothing ==
    [][\A t \in AllTargets :
          /\ (penDown(t, TRAIL) /\ ~Open(t)) =>
                 /\ Open(t)'
                 /\ Len(Kids(t)') = Len(Kids(t)) + 1
                 /\ IsPrefix(Kids(t), Kids(t)')
                 /\ penStates[t].penPath'.idx = Len(Kids(t)')
                 /\ Len(Cmds(t)') = 1 /\ Cmds(t)'[1].op = "M"
          /\ (penDown(t, PLOTTER) /\ ~Open(t)) =>
                 /\ ~Open(t)'
                 /\ Kids(t)' = Kids(t)
          /\ (penUp(t) /\ Open(t) /\ Len(Cmds(t)) = 1
                /\ penStates[t].penPath.idx = Len(Kids(t))) =>
                 /\ ~Open(t)'
                 /\ Kids(t)' = Pop(Kids(t))
          /\ (penUp(t) /\ ~Open(t)) => Kids(t)' = Kids(t)]_vars

C7_Witness ==
    \E t \in AllTargets :
        /\ hist[t].mode = "trail" /\ Open(t) /\ PenTypeOf(t) = TRAIL
        /\ run[t] = 0 /\ Len(Cmds(t)) = 1
        /\ Len(Kids(t)) = 2 /\ penStates[t].penPath.idx = 2

(* C8.  As stated: a finished path that was started at P and whose final     *)
(* point is within 0.5 units of P ends in a Close command; if its final     *)
(* point is 10 units from P it contains no Close command; for both line     *)
(* shapes and both pen types.                                                *)
C8_ReturnCloses ==
    [][\A t \in AllTargets :
          (Finishing(t) /\ Len(Cmds(t)) >= 2 /\ Cmds(t)[1].op = "M") =>
              LET a == Cmds(t)
                  P == Pt(a[1])
                  F == Pt(a[Len(a)])
                  kept == Persisted(t)
              IN  /\ Within(P, F) =>
                         /\ kept # <<>>
                         /\ kept[Len(kept)].op = "Z"
                  /\ Dist2(P, F) = Sq(10 * Unit) => ~HasClose(kept)]_vars

\* the point that the code compares the last command with, spelled out
PathStart(plots) == IF plots[2].op = "L" THEN Pt(plots[1]) ELSE Pt(plots[2])

\* the endpoint of the first draw command
FirstDrawn(plots) ==
    IF plots[2].op = "Q" THEN <<plots[2].cx, plots[2].cy>> ELSE Pt(plots[2])

(* C9.  As stated: finish closes the path exactly when the distance between  *)
(* the endpoint of the first LineTo/curve command (not the MoveTo point)    *)
(* and the final drawn point is at most 0.5.                                 *)
C9_ClosedIffNearFirstDrawn ==
    [][\A t \in AllTargets :
          (Finishing(t) /\ Len(Retracted(t)) >= 2) =>
              LET plots == Retracted(t)
              IN  HasClose(Persisted(t)) <=>
                      Within(FirstDrawn(plots), Pt(plots[Len(plots)]))]_vars

(* C9, amended.  finish compares the point of the last command with the      *)
(* path's start: the MoveTo point when the second command is a LineTo,      *)
(* otherwise the first coordinate pair of the second command.  The path is  *)
(* closed exactly when it has at least 3 commands after the provisional tip *)
(* is retracted and the distance between the two points is at most 0.5.     *)
C9_ClosedIffNearStart ==
    [][\A t \in AllTargets :
          Finishing(t) =>
              LET plots == Retracted(t)
              IN  HasClose(Persisted(t)) <=>
                      /\ Len(plots) >= 3
                      /\ Within(PathStart(plots), Pt(plots[Len(plots)]))]_vars

C9_Witness ==
    \E t \in AllTargets :
        /\ ~Open(t) /\ Len(Kids(t)) >= 1
        /\ LET a == Kids(t)[Len(Kids(t))].cmds
           IN  /\ Len(a) = 4
               /\ a[1].op = "M" /\ a[2].op = "L" /\ a[3].op = "L" /\ a[4].op = "Z"
               /\ Within(Pt(a[1]), Pt(a[3]))
               /\ ~Within(Pt(a[2]), Pt(a[3]))

(* C10.  As stated: when finish closes a path that ends in a T immediately   *)
(* preceded by a Q, the T is dropped, the kept array ends in a Q followed   *)
(* by Close, that closing Q carries the path's starting point, the MoveTo   *)
(* is moved to the other coordinate pair of the closing Q, and the array    *)
(* starts with MoveTo.                                                       *)
C10_MergeWhenEndsQT ==
    [][\A t \in AllTargets :
          LET plots == Retracted(t)
              n == Len(plots)
              kept == Persisted(t)
              m == Len(kept)
          IN  (/\ Finishing(t) /\ n >= 3 /\ HasClose(kept)
               /\ plots[n].op = "T" /\ plots[n - 1].op = "Q") =>
                  /\ kept[m].op = "Z"
                  /\ kept[m - 1].op = "Q"
                  /\ \A i \in 1..m : kept[i].op # "T"
                  /\ Pt(kept[m - 1]) = Pt(plots[1])
                  /\ kept[1] = MoveTo(<<kept[m - 1].cx, kept[m - 1].cy>>)]_vars

(* C10, amended.  finish merges exactly when the SECOND command of the       *)
(* closed path is a Q and its last command is a T: the T is dropped, the    *)
(* first Q is moved to the end (its first pair is the old MoveTo point),    *)
(* the MoveTo is moved to that Q's second pair, and Close is appended.  In  *)
(* every other closed path, also one that ends in Q, T after a LineTo,      *)
(* Close is appended and nothing else changes.                               *)
C10_MergeWhenFirstQLastT ==
    [][\A t \in AllTargets :
          LET plots == Retracted(t)
              n == Len(plots)
              kept == Persisted(t)
          IN  (Finishing(t) /\ n >= 3 /\ HasClose(kept)) =>
                  IF plots[2].op = "Q" /\ plots[n].op = "T"
                  THEN kept = <<MoveTo(<<plots[2].cx, plots[2].cy>>)>>
                                  \o SubSeq(plots, 3, n - 1)
                                  \o <<plots[2], ClosePath>>
                  ELSE kept = Append(plots, ClosePath)]_vars

C10_Witness ==
    \E t \in AllTargets :
        /\ ~Open(t) /\ Len(Kids(t)) >= 1
        /\ LET a == Kids(t)[Len(Kids(t))].cmds
           IN  /\ Len(a) = 4
               /\ a[1].op = "M" /\ a[2].op = "Q" /\ a[3].op = "Q" /\ a[4].op = "Z"
               /\ Pt(a[1]) = <<a[3].cx, a[3].cy>>

\* every path element of the target's drawing, open or persisted
PathsOf(t) == {i \in 1..Len(Kids(t)) : Kids(t)[i].kind = "path"}

(* C13.  As stated: a forced motion event on a target with an open path      *)
(* never appends a segment, in either pen type: the path is finished and    *)
(* the open path afterwards is a new one of the single command MoveTo at    *)
(* the new position.                                                         *)
C13_ForcedMoveRestarts ==
    [][\A t \in AllTargets :
          ((\E p \in Positions : targetMoved(t, p, TRUE)) /\ Open(t)) =>
              /\ Open(t)'
              /\ Cmds(t)' = <<MoveTo(SurfacePos(t)')>>
              /\ Ref(t)' = NoPoint]_vars

(* C14.  As stated: in every reachable state the first command of every      *)
(* path of a drawing, open or persisted, is a MoveTo.                        *)
C14_FirstIsMoveTo ==
    \A t \in AllTargets :
        \A i \in PathsOf(t) :
            /\ Kids(t)[i].cmds # <<>>
            /\ Kids(t)[i].cmds[1].op = "M"

(* C15.  referencePoint is non-null only if penPath is non-null and the last *)
(* command of the open path is a draw command (L, or the T that ends a      *)
(* curve) to the position that the most recent motion event reported, not   *)
(* committed by plot since; referencePoint is null whenever no path is open *)
(* (pen up) and whenever the open path has a single command.                *)
C15_ReferenceMarksTip ==
    \A t \in AllTargets :
        /\ Ref(t) # NoPoint =>
               /\ Open(t)
               /\ Len(Cmds(t)) >= 2
               /\ Cmds(t)[Len(Cmds(t))].op \in {"L", "T"}
               /\ Pt(Cmds(t)[Len(Cmds(t))]) = MapToSVGViewBox(Ref(t)[1], Ref(t)[2])
               /\ Ref(t) = <<targets[t].x, targets[t].y>>
        /\ (~Open(t) \/ Len(Cmds(t)) = 1) => Ref(t) = NoPoint

C15_Witness ==
    \E t \in AllTargets :
        /\ Ref(t) # NoPoint /\ PenTypeOf(t) = PLOTTER /\ ShapeOf(t) = CURVE
        /\ Len(Cmds(t)) = 3 /\ Cmds(t)[3].op = "T"

DiameterOf(t) == IF HasState(World, t) THEN penStates[t].penAttributes.diameter ELSE 1

\* the position of the open path among the children of its drawing, or 0
OpenIdx(t) == IF Open(t) THEN penStates[t].penPath.idx ELSE 0

\* the stroke that the pen attributes in force give a path
StrokeInForce(t) ==
    [width |-> penStates[t].penAttributes.diameter * stepPerMM,
     color |-> penStates[t].penAttributes.color3b,
     opacity |-> penStates[t].penAttributes.opacity]

(* C11.  As stated: setPenSizeTo with a new diameter while a path is open    *)
(* finishes that path, keeps it in the drawing if it had at least 2         *)
(* commands, and opens a new path of the single command MoveTo at the last  *)
(* drawn position of the old path, with the new diameter on the new path    *)
(* only.                                                                     *)
C11_SizeChangeRestarts ==
    [][\A t \in AllTargets : \A size \in Diameters :
          (setPenSizeTo(t, size) /\ Open(t) /\ size # DiameterOf(t)) =>
              LET a == Cmds(t)
                  i == OpenIdx(t)
              IN  /\ Open(t)'
                  /\ Cmds(t)' = <<MoveTo(Pt(a[Len(a)]))>>
                  /\ Kids(t)'[OpenIdx(t)'].stroke.width = size * stepPerMM
                  /\ Len(a) >= 2 =>
                         /\ Len(Kids(t)') = Len(Kids(t)) + 1
                         /\ OpenIdx(t)' = i + 1
                         /\ IsPrefix(a, Kids(t)'[i].cmds)
                         /\ Kids(t)'[i].stroke = Kids(t)[i].stroke
                  /\ Len(a) = 1 => Len(Kids(t)') = Len(Kids(t))]_vars

(* C12.  One stroke style per path: in every step, every path that is in    *)
(* the drawing before and after the step keeps its stroke colour, opacity   *)
(* and width, also the path that was open before a setPenColorToColor,      *)
(* setPenOpacity or setPenSizeTo call; and a path started by the step       *)
(* carries the colour, opacity and diameter in force after the step.  The   *)
(* one child that may differ is the new one-command path that took the      *)
(* place of the open path the step removed.                                 *)
C12_StrokeFixedAtStart ==
    [][\A t \in AllTargets :
          LET K == Kids(t)
              n == Len(K)
          IN  /\ \A i \in 1..n :
                     (/\ i <= Len(Kids(t)')
                      /\ \/ i # OpenIdx(t) \/ run[t]' # 0 \/ Len(Kids(t)') > n
                         \/ Len(Kids(t)'[i].cmds) > 1)
                     => Kids(t)'[i].stroke = K[i].stroke
              /\ (Open(t)' /\ run[t]' = 0) =>
                     Kids(t)'[OpenIdx(t)'].stroke = StrokeInForce(t)']_vars

C12_Witness ==
    \E t \in AllTargets :
        /\ Open(t) /\ Len(Kids(t)) = 2 /\ OpenIdx(t) = 2
        /\ Kids(t)[1].stroke.color # Kids(t)[2].stroke.color
        /\ Kids(t)[1].stroke.width # Kids(t)[2].stroke.width
        /\ Kids(t)[2].stroke = StrokeInForce(t)


\* The layer of target t exists in the renderer
HasLayer(t) == penStates[t] # NoState /\ penStates[t].skinID \in SkinIds

\* The document last pushed to the layer of target t
LayerSvg(t) == skins[penStates[t].skinID].svg

\* C16 (as stated): a target on which penDown was never performed has no open
\* path and no document pushed to a renderer layer, whatever else was done
\* to it (plot, stamp, clear, setters, motion, layer moves).
C16_IdleUntilPenDown ==
    \A t \in AllTargets :
        hist[t].ever # "penDown" => ~Open(t) /\ ~HasLayer(t)

\* C16 (amended): a target on which none of penDown, plot and stamp was
\* performed has no open path and an empty drawing, whatever setters, motion,
\* layer moves and clears were done to it; the only document a clear may have
\* pushed to its layer is the empty one.
C16_IdleUntilMark ==
    \A t \in AllTargets :
        hist[t].ever = "none" =>
            /\ ~Open(t)
            /\ Kids(t) = <<>>
            /\ HasLayer(t) => LayerSvg(t) = <<>>

\* an idle target whose size was set and whose drawing was then cleared
C16_Witness ==
    \E t \in AllTargets :
        /\ hist[t].ever = "none"
        /\ HasLayer(t)
        /\ DiameterOf(t) = 2

\* The document shown by the layer of target t, empty when it has no layer
RenderedOf(t) == IF HasLayer(t) THEN LayerSvg(t) ELSE <<>>

\* The children of the drawing of target t as _addSpriteDrawingTo copies them
ExportOf(t) ==
    IF HasState(World, t) /\ penStates[t].drawing # NoDrawing
    THEN DrawingSvg(World, t)
    ELSE <<>>

\* The pen state of target t without the position of its path in the document
StateOf(t) ==
    IF HasState(World, t)
    THEN [penStates[t] EXCEPT !.penPath = Cmds(t), !.drawing = RootKey(World, @)]
    ELSE NoState

\* c is a clone whose drawing is the group made in the drawing of s
CloneOf(c, s) ==
    /\ HasState(World, c) /\ HasState(World, s)
    /\ penStates[c].drawing \in GroupKeys
    /\ RootKey(World, penStates[c].drawing) = penStates[s].drawing

\* A block or a motion event of target t that can change its drawing
DrawingStep(t) ==
    \/ penDown(t, TRAIL)
    \/ penUp(t)
    \/ \E p \in NearPositions : targetMoved(t, p, FALSE)
    \/ clear(t)

\* C17 (as stated): after a target with an open trail path is cloned, a change
\* to the clone's drawing (drawing, finishing or clearing its paths) leaves
\* what the source's layer shows and what is exported for the source unchanged.
C17_CloneIsolated ==
    [][\A c \in Clones, s \in Originals :
          (CloneOf(c, s) /\ Open(s) /\ PenTypeOf(s) = TRAIL /\ DrawingStep(c)) =>
              /\ RenderedOf(s)' = RenderedOf(s)
              /\ ExportOf(s)' = ExportOf(s)]_vars

\* C18 (as stated): a clone made of a source that has pen state gets the
\* source's attributes, pen type and reference-point status, and is registered
\* as a motion listener when the source has a path open in trail mode, so that
\* its next motion draws.
C18_CloneListens ==
    [][\A c \in Clones, s \in Originals :
          (targetCreated(c, s) /\ HasState(World, s)) =>
              /\ penStates'[c].penAttributes = penStates[s].penAttributes
              /\ penStates'[c].penType = penStates[s].penType
              /\ (penStates'[c].referencePoint = NoPoint) = (penStates[s].referencePoint = NoPoint)
              /\ (Open(s) /\ PenTypeOf(s) = TRAIL) => listeners'[c] > 0]_vars

\* C19 (as stated): an operation on target a (penDown, penUp, motion, clear,
\* removal of a) leaves the pen state of every other target b, the content of
\* b's drawing and the document last pushed to b's layer unchanged, clones
\* included.
C19_NoCrossTargetChange ==
    [][\A a \in AllTargets, b \in AllTargets :
          (a # b /\ (DrawingStep(a) \/ targetWasRemoved(a))) =>
              /\ StateOf(b)' = StateOf(b)
              /\ ExportOf(b)' = ExportOf(b)
              /\ RenderedOf(b)' = RenderedOf(b)]_vars

\* The layer of target t is released in this step
Released(t) ==
    /\ skins'[penStates[t].skinID].state = "destroyed"
    /\ OrderOf(drawOrder', penStates[t].drawableID) = 0

\* The layer of target t is in the renderer after this step as before
Kept(t) ==
    /\ skins'[penStates[t].skinID].state = skins[penStates[t].skinID].state
    /\ (OrderOf(drawOrder', penStates[t].drawableID) = 0) = (OrderOf(drawOrder, penStates[t].drawableID) = 0)

Eligible == {t \in AllTargets : Alive(t) /\ ExportOf(t) # <<>>}

\* The group that an export holds for target t
GroupOf(t) == [kind |-> "group", id |-> SpriteName[t], kids |-> ExportOf(t)]

\* The layer order of target t
LayerOrder(t) == GetDrawableOrderFor(World, t)

(* C21.  Export composition: a downloadAllDrawing that is not cancelled      *)
(* saves one document that holds exactly one named group per target whose   *)
(* drawing has content, the groups in ascending layer order, each with a    *)
(* copy of the children of that target's drawing at that moment; the export *)
(* changes no pen state, drawing or layer, and no later change to a drawing *)
(* changes the saved document.                                              *)
C21_ExportComposition ==
    [][/\ \A fileName \in PromptResults \ {PromptNull, ""} :
              downloadAllDrawing(fileName) =>
                  /\ result' = "saved"
                  /\ saved'.name = fileName
                  /\ Len(saved'.svg) = Cardinality(Eligible)
                  /\ \E f \in [1..Len(saved'.svg) -> Eligible] :
                         /\ \A i, j \in 1..Len(saved'.svg) : i # j => f[i] # f[j]
                         /\ \A i \in 1..Len(saved'.svg) : saved'.svg[i] = GroupOf(f[i])
                         /\ \A i, j \in 1..Len(saved'.svg) :
                                i < j => LayerOrder(f[i]) <= LayerOrder(f[j])
                  /\ UNCHANGED <<penStates, docs, skins, drawOrder, listeners>>
       /\ (docs' # docs \/ penStates' # penStates) => saved' = saved]_vars

\* an export was saved in which the clone's group precedes the group of
\* its source, because the clone's layer is below
C21_Witness ==
    /\ result = "saved"
    /\ \A t \in AllTargets : Alive(t) /\ ExportOf(t) # <<>>
    /\ ExportOf("c1") # ExportOf("s1")
    /\ LayerOrder("c1") < LayerOrder("s1")
    /\ saved.svg = <<GroupOf("c1"), GroupOf("s1")>>

(* C22.  As stated: downloadSpriteDrawing on a target with no recorded       *)
(* content (no pen state, or a drawing without children) returns            *)
(* 'no drawing' and saves no file.                                          *)
C22_EmptyIsNoDrawing ==
    [][\A t \in AllTargets, fileName \in PromptResults :
          (downloadSpriteDrawing(t, fileName) /\ ExportOf(t) = <<>>) =>
              /\ result' = "no drawing"
              /\ saved' = saved]_vars

\* The prompt of downloadSpriteDrawing is shown for target t
Prompted(t) == HasState(World, t) /\ penStates[t].drawing # NoDrawing

(* C23.  Cancelling the prompt (null or the empty name) makes                *)
(* downloadSpriteDrawing and downloadAllDrawing return 'cancelled', save no  *)
(* file and leave every pen state, drawing and layer as it was.             *)
C23_CancelChangesNothing ==
    [][\A fileName \in {PromptNull, ""} :
          (\/ downloadAllDrawing(fileName)
           \/ \E t \in AllTargets : Prompted(t) /\ downloadSpriteDrawing(t, fileName)) =>
              /\ result' = "cancelled"
              /\ saved' = saved
              /\ UNCHANGED <<penStates, docs, skins, drawOrder, listeners>>]_vars

\* a download was cancelled after a file had been saved, and a target has
\* content to export
C23_Witness ==
    /\ result = "cancelled"
    /\ saved # NoFile
    /\ \E t \in AllTargets : Prompted(t) /\ ExportOf(t) # <<>>

\* Target t has no layer handle: no pen state, or skinID < 0
NoHandle(t) == penStates[t] = NoState \/ penStates[t].skinID < 0

\* A block of target t that reaches _updatePenSkinFor from a state without a
\* layer handle
PushesFirst(t) ==
    /\ NoHandle(t)
    /\ \/ penDown(t, TRAIL)
       \/ plot(t)
       \/ stamp(t)
       \/ penStates[t] # NoState /\ clear(t)

(* C24.  As stated: pushing a document update for a target whose pen state  *)
(* has no layer handle raises an error, and no renderer layer is updated.   *)
C24_MissingHandleRaises ==
    [][\A t \in AllTargets :
          PushesFirst(t) => skins' = skins /\ drawOrder' = drawOrder]_vars

(* C24 (amended).  Pushing a document update for a target whose pen state    *)
(* has no layer handle raises no error: the layer is made first, a skin not *)
(* in use until then and a drawable added on top of the draw list, and it   *)
(* holds the target's current document; no other layer is touched.          *)
C24_MissingHandleMakesLayer ==
    [][\A t \in AllTargets :
          PushesFirst(t) =>
              /\ HasLayer(t)'
              /\ skins[penStates'[t].skinID].state = "unused"
              /\ skins'[penStates'[t].skinID].state = "live"
              /\ LayerSvg(t)' = SvgOf(World, t)'
              /\ drawOrder' = Append(drawOrder, penStates'[t].drawableID)
              /\ \A i \in SkinIds \ {penStates'[t].skinID} : skins'[i] = skins[i]]_vars

\* a target whose first push came from clear: it has a layer and never drew
C24_Witness ==
    \E t \in AllTargets :
        /\ HasLayer(t)
        /\ hist[t].ever = "none"
        /\ LayerSvg(t) = <<>>
        /\ drawOrder = <<penStates[t].drawableID>>

\* The vector document of target t, empty when it has none
DocumentOf(t) ==
    IF penStates[t] # NoState /\ penStates[t].drawing # NoDrawing
    THEN SvgOf(World, t)
    ELSE <<>>

(* C25.  As stated: every operation that changes a target's vector document *)
(* (motion draw, penDown, penUp, plot, clear, stamp, and the restart of the *)
(* path by a setter) ends with a push: when it returns, the content last    *)
(* pushed to the target's renderer layer is the target's document.          *)
C25_MutationEndsWithPush ==
    [][\A t \in AllTargets :
          (Alive(t) /\ DocumentOf(t)' # DocumentOf(t)) =>
              RenderedOf(t)' = DocumentOf(t)']_vars

(* C26.  After penDown of either pen type on a target, onTargetMoved is      *)
(* registered as a listener of that target's TARGET_MOVED event.            *)
C26_PenDownListens ==
    [][\A t \in AllTargets : \A penType \in PEN_TYPES :
          penDown(t, penType) => listeners'[t] >= 1]_vars

\* the plotter pen was put down on a target where nothing listened, and no
\* path is open yet
C26_Witness ==
    \E t \in AllTargets :
        /\ hist[t].mode = "armed"
        /\ penStates[t].penType = PLOTTER
        /\ penStates[t].penPath = NoPath
        /\ listeners[t] = 1

(* C27.  As stated: after penUp on a target whose pen was down, whatever    *)
(* penDown, plot and pen-type switches came before, onTargetMoved is no     *)
(* longer registered as a listener of that target.                          *)
C27_PenUpStopsListening ==
    [][\A t \in AllTargets :
          (penUp(t) /\ hist[t].down) => listeners'[t] = 0]_vars

(* C28.  After setPenSizeTo with SIZE = s the diameter of the target is      *)
(* max(0, s); the diameter of a pen state is never negative.                *)
C28_SizeClamped ==
    [][/\ \A t \in AllTargets : \A size \in SizeArgs :
              setPenSizeTo(t, size) =>
                  /\ penStates'[t] # NoState
                  /\ penStates'[t].penAttributes.diameter = (IF size > 0 THEN size ELSE 0)
       /\ \A t \in AllTargets :
              penStates'[t] # NoState => penStates'[t].penAttributes.diameter >= 0]_vars

\* the size was set to zero or less while a path was open: the diameter is 0
\* and the path that was started anew has a stroke of no width
C28_Witness ==
    \E t \in AllTargets :
        /\ Open(t)
        /\ DiameterOf(t) = 0
        /\ Kids(t)[OpenIdx(t)].stroke.width = 0

(* C29.  As stated: setLineShape sets the lineShape attribute and never     *)
(* restarts or edits the open path: the drawing, the open path and the      *)
(* referencePoint are unchanged by the call, and the new shape is used only *)
(* for the segments that later motion events append: such an event leaves   *)
(* the start of the open path, drawn before it, as it was.                  *)
C29_LineShapeOnlyLater ==
    [][\A t \in AllTargets :
          /\ \A lineShape \in LINE_SHAPES :
                 setLineShape(t, lineShape) =>
                     /\ penStates'[t].penAttributes.lineShape = lineShape
                     /\ docs' = docs
                     /\ penStates[t] # NoState =>
                            /\ penStates'[t].penPath = penStates[t].penPath
                            /\ penStates'[t].referencePoint = penStates[t].referencePoint
          /\ \A p \in Positions :
                 (targetMoved(t, p, FALSE) /\ Open(t)) =>
                     /\ Open(t)'
                     /\ OpenIdx(t)' = OpenIdx(t)
                     /\ Cmds(t)'[1] = Cmds(t)[1]]_vars

FinishedPaths(t) == {i \in PathsOf(t) : i # OpenIdx(t)}

(* C31.  As stated: finish discards a path of at most one command and runs  *)
(* the close detection on every other path, so a finished path that starts *)
(* with its MoveTo never has one command only, and never has exactly two    *)
(* commands with the final point within 0.5 of the start: such a path was   *)
(* given a Close command, as a longer one is.                               *)
C31_TwoCommandPathCloses ==
    \A t \in AllTargets :
        \A i \in FinishedPaths(t) :
            LET a == Kids(t)[i].cmds
            IN  (a # <<>> /\ a[1].op = "M") =>
                    /\ Len(a) # 1
                    /\ Len(a) = 2 => ~Within(Pt(a[1]), Pt(a[2]))

(* C32.  As stated: a smooth segment appended to a path whose tip is a T    *)
(* command replaces that tip, so no path has two adjacent T commands, and a *)
(* Q command that follows a T command starts at the end point of that T.    *)
C32_NoAdjacentSmooth ==
    \A t \in AllTargets :
        \A i \in PathsOf(t) :
            LET a == Kids(t)[i].cmds
            IN  \A k \in 1..(Len(a) - 1) :
                    a[k].op = "T" =>
                        /\ a[k + 1].op # "T"
                        /\ a[k + 1].op = "Q" => Pt(a[k + 1]) = Pt(a[k])

(* C33.  penDown with a pen type other than that of the open path finishes  *)
(* the open path by the finish rules: the reference point is removed, the   *)
(* path is discarded when one command is left and is kept, closed when the  *)
(* close detection says so, otherwise.  The pen type is then the new one;   *)
(* with trail a new path is open, a single MoveTo at the target's position, *)
(* with plotter no path is open, until the next plot.                       *)
C33_SwitchFinishesPath ==
    [][\A t \in AllTargets :
          /\ \A penType \in PEN_TYPES :
                 (penDown(t, penType) /\ Open(t) /\ PenTypeOf(t) # penType) =>
                     LET i == OpenIdx(t)
                         left == Retracted(t)
                         n == IF Len(left) = 1 THEN Len(Kids(t)) - 1 ELSE Len(Kids(t))
                     IN  /\ PenTypeOf(t)' = penType
                         /\ Ref(t)' = NoPoint
                         /\ Len(left) > 1 => Kids(t)'[i].cmds = FinishedPlots(left)
                         /\ penType = PLOTTER => ~Open(t)' /\ Len(Kids(t)') = n
                         /\ penType = TRAIL =>
                                /\ Open(t)'
                                /\ OpenIdx(t)' = n + 1
                                /\ Len(Kids(t)') = n + 1
                                /\ Cmds(t)' = <<MoveTo(SurfacePos(t))>>
          /\ (hist[t].mode = "armed" /\ ~plot(t) /\ ~penDown(t, TRAIL)) => ~Open(t)']_vars

\* the plotter pen was put down while a trail of two segments or more was
\* open: the trail is kept, finished, and no path is open
C33_Witness ==
    \E t \in AllTargets :
        /\ hist[t].mode = "armed"
        /\ ~Open(t)
        /\ \E i \in PathsOf(t) : Len(Kids(t)[i].cmds) >= 2

(* C34.  penDown is idempotent while a path of the same pen type is open:   *)
(* a repeated penDown with that type leaves the pen state (open path,       *)
(* referencePoint, type, attributes), the drawing with its open and         *)
(* persisted paths, the layers and their pushed content, and the listener   *)
(* registrations as they were.                                              *)
C34_PenDownIdempotent ==
    [][\A t \in AllTargets : \A penType \in PEN_TYPES :
          (penDown(t, penType) /\ Open(t) /\ PenTypeOf(t) = penType) =>
              UNCHANGED <<penStates, docs, skins, drawOrder, listeners>>]_vars

\* plot opened a plotter path, the only registration is the one plot made,
\* and penDown 'plotter' came after it: the preview drawn since is there
C34_Witness ==
    \E t \in AllTargets :
        /\ hist[t].down
        /\ hist[t].mode = "plotting"
        /\ Open(t)
        /\ PenTypeOf(t) = PLOTTER
        /\ listeners[t] = 1
        /\ Ref(t) # NoPoint

(* C35.  plot while a trail path is open changes nothing: pen type, open    *)
(* path, referencePoint, persisted paths, layers and listener registrations *)
(* are as they were.                                                        *)
C35_PlotIgnoredByTrail ==
    [][\A t \in AllTargets :
          (plot(t) /\ Open(t) /\ PenTypeOf(t) = TRAIL) =>
              UNCHANGED <<penStates, docs, skins, drawOrder, listeners>>]_vars

\* a trail with a segment drawn and its reference point set, after a block
\* that is not a motion event and did not start the path over
C35_Witness ==
    \E t \in AllTargets :
        /\ hist[t].mode = "trail"
        /\ Open(t)
        /\ PenTypeOf(t) = TRAIL
        /\ Len(Cmds(t)) >= 2
        /\ Ref(t) # NoPoint
        /\ run[t] = -1

(* C36.  As stated: retracting a provisional segment is the inverse of      *)
(* appending it.  In plotter mode, for either line shape and whatever the   *)
(* tip command is, the command list of the open path after a motion event   *)
(* appended its preview, once _removeReferenceLine has removed the preview, *)
(* is the command list before the preview was appended.                     *)
C36_RetractInvertsAppend ==
    [][\A t \in AllTargets : \A p \in Positions : \A isForce \in BOOLEAN :
          (/\ targetMoved(t, p, isForce)
           /\ Open(t) /\ PenTypeOf(t) = PLOTTER /\ Ref(t) = NoPoint
           /\ listeners[t] = 1) =>
              /\ Ref(t)' # NoPoint
              /\ Retracted(t)' = Cmds(t)]_vars

(* C37.  As stated: onTargetMoved is registered at most once per target in  *)
(* every reachable state, so that one position change of a target with a   *)
(* trail pen appends one segment to its open path and no more.              *)
C37_RegisteredOnce ==
    \A t \in AllTargets :
        /\ listeners[t] <= 1
        /\ (Open(t) /\ PenTypeOf(t) = TRAIL /\ ShapeOf(t) = STRAIGHT /\ run[t] >= 0) =>
               Len(Cmds(t)) <= run[t] + 1

\* The fill attributes of target t
FillAttrsOf(t) ==
    [color |-> penStates[t].penAttributes.fillColor3b,
     opacity |-> penStates[t].penAttributes.fillOpacity]

(* C38.  setFillColorToColor and setFillOpacity with a value other than the *)
(* current one, while a path is open, do not start the path over: no path   *)
(* is finished or made, the open path keeps its commands and its stroke,    *)
(* the referencePoint stays, every other child of the drawing stays; the    *)
(* fill of the open path is 'none' exactly when fillOpacity is 0 and is the *)
(* fill colour with the fill opacity otherwise; the document is pushed.     *)
C38_FillChangesInPlace ==
    [][\A t \in AllTargets :
          (/\ \/ \E rgba \in ColorArgs : setFillColorToColor(t, rgba)
              \/ \E percent \in FillOpacityArgs : setFillOpacity(t, percent)
           /\ Open(t)
           /\ FillAttrsOf(t)' # FillAttrsOf(t)) =>
              LET i == OpenIdx(t)
              IN  /\ penStates'[t].penPath = penStates[t].penPath
                  /\ Ref(t)' = Ref(t)
                  /\ Len(Kids(t)') = Len(Kids(t))
                  /\ \A k \in 1..Len(Kids(t)) : k # i => Kids(t)'[k] = Kids(t)[k]
                  /\ Kids(t)'[i].cmds = Kids(t)[i].cmds
                  /\ Kids(t)'[i].stroke = Kids(t)[i].stroke
                  /\ (Kids(t)'[i].fill.color = "none") = (FillAttrsOf(t)'.opacity = 0)
                  /\ FillAttrsOf(t)'.opacity > 0 => Kids(t)'[i].fill = FillAttrsOf(t)'
                  /\ RenderedOf(t)' = DocumentOf(t)']_vars

\* an open path with a segment drawn whose fill was set and then taken away:
\* its fill is 'none' and the fill opacity set before is still on the element
C38_Witness ==
    \E t \in AllTargets :
        /\ Open(t)
        /\ Len(Cmds(t)) >= 2
        /\ Kids(t)[OpenIdx(t)].fill.color = "none"
        /\ Kids(t)[OpenIdx(t)].fill.opacity > 0
        /\ RenderedOf(t) = DocumentOf(t)

(* C39.  As stated: in every reachable state no pen state of a target that  *)
(* exists holds a layer handle that was destroyed in the renderer: its skin *)
(* is live and its drawable is in the draw list.  Removing an original      *)
(* target never destroys a layer that the pen state of a remaining clone    *)
(* refers to.                                                               *)
C39_NoDestroyedHandle ==
    \A t \in AllTargets :
        (Alive(t) /\ HasLayer(t)) =>
            /\ skins[penStates[t].skinID].state = "live"
            /\ OrderOf(drawOrder, penStates[t].drawableID) # 0

(* C40.  As stated: in the document that downloadAllDrawing saves, every    *)
(* path or stamp of every sprite target appears once, in the group of the   *)
(* target that drew it, clones included: the group of a target holds        *)
(* nothing that another target drew.                                        *)
C40_EachDrawingOnce ==
    [][\A fileName \in PromptResults :
          (downloadAllDrawing(fileName) /\ result' = "saved") =>
              \A i \in 1..Len(saved'.svg) :
                  \A k \in 1..Len(saved'.svg[i].kids) :
                      saved'.svg[i].kids[k].kind = "group" =>
                          saved'.svg[i].kids[k].kids = <<>>]_vars

====
